---- MODULE Spec2Model ----
(***************************************************************************)
(* Zone / subnet planning for AWS clusters                                 *)
(*   pkg/asset/manifests/aws/zones.go       (planner: setSubnets and the   *)
(*                                            zonesCAPI zone sets)         *)
(*   pkg/asset/installconfig/aws/subnet.go  (discovery: subnets,           *)
(*                                            isSubnetPublic)              *)
(*                                                                         *)
(* Representation                                                          *)
(*   - a CIDR string "10.0.0.0/19" is the record                           *)
(*       [ip |-> <<10, 0, 0, 0>>, bits |-> 19], the empty string EmptyCidr; *)
(*   - a parsed network (net.IPNet) is [n |-> <<hi, lo>>, bits |-> 19],    *)
(*     the uint32 address kept as two 16-bit halves so that the uint32     *)
(*     arithmetic of the split keeps its width;                            *)
(*   - a Go set (sets.Set[string]) is a TLA+ set, a Go slice a sequence,   *)
(*     a Go map a function; a *bool is "true", "false" or NULL.            *)
(***************************************************************************)
EXTENDS Integers, Sequences, FiniteSets, TLC

VARIABLES
    in,         \* the zonesInput handed to setSubnets (install config, ids)
    cloud,      \* what the cloud API answers (collaborator facts)
    cluster,    \* the caller-supplied network descriptor (NetworkSpec)
    ret,        \* what the last setSubnets call returned
    calls,      \* collaborator / split calls made by the last setSubnets call
    splits,     \* the arguments of the split calls of the last setSubnets call
    hist,       \* one entry per setSubnets call: descriptor before and after
    rtIn,       \* isSubnetPublic: the arguments of the call
    rtOut,      \* isSubnetPublic: what it returned
    subnetsOut, \* subnets: what the discovery returned
    zoSets,     \* zonesCAPI: the zone sets of a zonesCAPI value
    zoOp,       \* zonesCAPI: the last method called on it and its arguments
    ec2,        \* Elastic IPs: the machine's pool, its instance, EC2's addresses
    eipOut      \* Elastic IPs: the last ReconcileElasticIP call and its result

vars == <<in, cloud, cluster, ret, calls, splits, hist, rtIn, rtOut, subnetsOut,
          zoSets, zoOp, ec2, eipOut>>

NULL == "<nil>"             \* a nil *string, or no error
NIL == [nil |-> TRUE]       \* a nil pointer to a struct

(***************************************************************************)
(* Bounds of the model                                                     *)
(***************************************************************************)
MaxRegionZones == 3   \* zones the region can report
MaxPools == 2         \* compute pools in the install config
MaxCalls == 2         \* setSubnets invocations in one behaviour
MaxSubnets == 2       \* subnets a DescribeSubnets answer holds
MaxTables == 2        \* route tables a DescribeRouteTables answer holds

(***************************************************************************)
(* Sequences helpers                                                       *)
(***************************************************************************)
Range(s) == {s[i] : i \in 1..Len(s)}

\* All orders in which a Go `range` can visit the keys of a map.
Perms(S) == {p \in [1..Cardinality(S) -> S] : Range(p) = S}

(***************************************************************************)
(* IPv4 arithmetic                                                         *)
(***************************************************************************)
Half == 2^16

\* uint32 of a dotted quad (binary.BigEndian.Uint32), as <<hi, lo>>.
U32(ip) == <<ip[1] * 256 + ip[2], ip[3] * 256 + ip[4]>>

\* binary.BigEndian.PutUint32: the dotted quad of <<hi, lo>>.
Quad(n) == <<n[1] \div 256, n[1] % 256, n[2] \div 256, n[2] % 256>>

\* uint32(i) << s
Shl32(i, s) ==
    IF s >= 32 THEN <<0, 0>>
    ELSE IF s >= 16 THEN <<(i * 2^(s - 16)) % Half, 0>>
    ELSE <<((i * 2^s) \div Half) % Half, (i * 2^s) % Half>>

\* a + b on uint32 (wraps)
Add32(a, b) ==
    LET lo == a[2] + b[2]
    IN  <<(a[1] + b[1] + (lo \div Half)) % Half, lo % Half>>

\* n & CIDRMask(bits, 32)
Mask32(n, bits) ==
    IF bits >= 32 THEN n
    ELSE IF bits >= 16 THEN <<n[1], n[2] - (n[2] % 2^(32 - bits))>>
    ELSE <<n[1] - (n[1] % 2^(16 - bits)), 0>>

\* a <= b on uint32
Leq32(a, b) == a[1] < b[1] \/ (a[1] = b[1] /\ a[2] <= b[2])

\* The empty string where a CIDR string is expected.
EmptyCidr == [ip |-> <<>>, bits |-> 0]

\* net.ParseCIDR: the network of a CIDR string (the address is masked).
ParseCIDR(s) == [n |-> Mask32(U32(s.ip), s.bits), bits |-> s.bits]

\* (*net.IPNet).String
String(net) == [ip |-> Quad(net.n), bits |-> net.bits]

\* math.Ceil(math.Log2(n)) for n >= 1
RECURSIVE CeilLog2From(_, _)
CeilLog2From(n, k) == IF 2^k >= n THEN k ELSE CeilLog2From(n, k + 1)
CeilLog2(n) == CeilLog2From(n, 0)

\* utilscidr.SplitIntoSubnetsIPv4: numSubnets networks of prefix length
\* networkLen + ceil(log2 numSubnets), in address order, or an error when that
\* prefix is longer than 32 bits.  For numSubnets = 0 the loop does not run.
SplitIntoSubnetsIPv4(cidrBlock, numSubnets) ==
    IF numSubnets = 0 THEN [err |-> FALSE, nets |-> <<>>]
    ELSE
    LET parent == ParseCIDR(cidrBlock)
        modifiedNetworkLen == parent.bits + CeilLog2(numSubnets)
    IN  IF modifiedNetworkLen > 32
        THEN [err |-> TRUE, nets |-> <<>>]
        ELSE [err |-> FALSE,
              nets |-> [i \in 1..numSubnets |->
                          [n |-> Add32(parent.n, Shl32(i - 1, 32 - modifiedNetworkLen)),
                           bits |-> modifiedNetworkLen]]]

(***************************************************************************)
(* Strings: sort.Strings / sets.List order (bytewise lexicographic)        *)
(***************************************************************************)
Alphabet == "-0123456789abcdefghijklmnopqrstuvwxyz"

CharRank(c) == CHOOSE i \in 1..Len(Alphabet) : SubSeq(Alphabet, i, i) = c

RECURSIVE StrLess(_, _)
StrLess(s, t) ==
    IF Len(t) = 0 THEN FALSE
    ELSE IF Len(s) = 0 THEN TRUE
    ELSE LET a == CharRank(SubSeq(s, 1, 1))
             b == CharRank(SubSeq(t, 1, 1))
         IN  IF a # b THEN a < b
             ELSE StrLess(SubSeq(s, 2, Len(s)), SubSeq(t, 2, Len(t)))

\* sets.List: the elements of a set of strings in ascending order.
RECURSIVE SortedList(_)
SortedList(S) ==
    IF S = {} THEN <<>>
    ELSE LET m == CHOOSE x \in S : \A y \in S \ {x} : StrLess(x, y)
         IN  <<m>> \o SortedList(S \ {m})

\* strings.HasPrefix
HasPrefix(s, prefix) ==
    Len(s) >= Len(prefix) /\ SubSeq(s, 1, Len(prefix)) = prefix

(***************************************************************************)
(* types: role names, publishing strategies, zone types                    *)
(***************************************************************************)
MachinePoolControlPlaneRoleName == "master"
MachinePoolComputeRoleName == "worker"
MachinePoolEdgeRoleName == "edge"
ExternalPublishingStrategy == "External"
InternalPublishingStrategy == "Internal"
AvailabilityZoneTypeLocal == "local-zone"
RegularZoneType == "availability-zone"
WavelengthZoneType == "wavelength-zone"

(***************************************************************************)
(* zonesCAPI: the zone sets per role                                       *)
(***************************************************************************)
NewZonesCAPI == [controlPlaneZones |-> {}, computeZones |-> {}, edgeZones |-> {}]

\* AvailabilityZones over all three zone sets.
AvailabilityZonesWithEdge(zo) ==
    SortedList(zo.controlPlaneZones \cup zo.computeZones \cup zo.edgeZones)

\* zonesCAPI.AvailabilityZones
AvailabilityZones(zo) == SortedList(zo.controlPlaneZones \cup zo.computeZones)

\* zonesCAPI.EdgeZones
EdgeZones(zo) == SortedList(zo.edgeZones)

\* zonesCAPI.SetAvailabilityZones
SetAvailabilityZones(zo, pool, zones) ==
    CASE pool = MachinePoolControlPlaneRoleName ->
            [zo EXCEPT !.controlPlaneZones = @ \cup Range(zones)]
      [] pool = MachinePoolComputeRoleName ->
            [zo EXCEPT !.computeZones = @ \cup Range(zones)]
      [] OTHER -> zo

\* SetDefaultConfigZones without the test for a role's set being empty.
SetDefaultConfigZonesAlways(zo, pool, defConfig, defRegion) ==
    LET zones == IF Len(defConfig) > 0 THEN defConfig ELSE defRegion
    IN  CASE pool = MachinePoolControlPlaneRoleName ->
                [zo EXCEPT !.controlPlaneZones = @ \cup Range(zones)]
          [] pool = MachinePoolComputeRoleName ->
                [zo EXCEPT !.computeZones = @ \cup Range(zones)]
          [] OTHER -> zo

\* zonesCAPI.SetDefaultConfigZones
SetDefaultConfigZones(zo, pool, defConfig, defRegion) ==
    CASE pool = MachinePoolControlPlaneRoleName ->
            LET zones == IF Cardinality(zo.controlPlaneZones) = 0 /\ Len(defConfig) > 0
                         THEN defConfig
                         ELSE IF Cardinality(zo.controlPlaneZones) = 0
                         THEN defRegion
                         ELSE <<>>
            IN  [zo EXCEPT !.controlPlaneZones = @ \cup Range(zones)]
      [] pool = MachinePoolComputeRoleName ->
            LET zones == IF Cardinality(zo.computeZones) = 0 /\ Len(defConfig) > 0
                         THEN defConfig
                         ELSE IF Cardinality(zo.computeZones) = 0
                         THEN defRegion
                         ELSE <<>>
            IN  [zo EXCEPT !.computeZones = @ \cup Range(zones)]
      [] OTHER -> zo

\* The body of the loop over cfg.Compute in extractZonesFromInstallConfig.
ExtractComputePool(zo, pool, defaultZones, zonesInRegion) ==
    IF pool.AWS = NIL THEN zo
    ELSE LET zo1 == IF Len(pool.AWS.Zones) > 0
                    THEN SetAvailabilityZones(zo, pool.Name, pool.AWS.Zones)
                    ELSE zo
         IN  IF pool.Name = MachinePoolEdgeRoleName
             THEN [zo1 EXCEPT !.edgeZones = @ \cup Range(pool.AWS.Zones)]
             ELSE SetDefaultConfigZones(zo1, MachinePoolComputeRoleName,
                                        defaultZones, zonesInRegion)

RECURSIVE ExtractComputePools(_, _, _, _)
ExtractComputePools(zo, pools, defaultZones, zonesInRegion) ==
    IF pools = <<>> THEN zo
    ELSE ExtractComputePools(
            ExtractComputePool(zo, Head(pools), defaultZones, zonesInRegion),
            Tail(pools), defaultZones, zonesInRegion)

\* extractZonesFromInstallConfig
extractZonesFromInstallConfig(zin) ==
    LET cfg == zin.InstallConfig.Config
        defaultZones ==
            IF cfg.AWS # NIL /\ cfg.AWS.DefaultMachinePlatform # NIL
               /\ Len(cfg.AWS.DefaultMachinePlatform.Zones) > 0
            THEN cfg.AWS.DefaultMachinePlatform.Zones
            ELSE <<>>
        zo0 == NewZonesCAPI
        zo1 == IF cfg.ControlPlane # NIL /\ cfg.ControlPlane.AWS # NIL
               THEN SetAvailabilityZones(zo0, MachinePoolControlPlaneRoleName,
                                         cfg.ControlPlane.AWS.Zones)
               ELSE zo0
        zo2 == SetDefaultConfigZones(zo1, MachinePoolControlPlaneRoleName,
                                     defaultZones, zin.ZonesInRegion)
    IN  ExtractComputePools(zo2, cfg.Compute, defaultZones, zin.ZonesInRegion)

(***************************************************************************)
(* The planner, managed VPC                                                *)
(***************************************************************************)
\* capiutils.CIDRFromInstallConfig(...).String(): the machine-network CIDR.
CIDRFromInstallConfig(ic) == ic.Config.MachineNetwork[1]

\* capa.SubnetSpec
SubnetSpec(id, zone, cidr, public) ==
    [ID |-> id, AvailabilityZone |-> zone, CidrBlock |-> cidr, IsPublic |-> public]

\* fmt.Sprintf("%s-subnet-private-%s", infraID, zone) and its public twin
PrivateSubnetID(infraID, zone) == infraID \o "-subnet-private-" \o zone
PublicSubnetID(infraID, zone) == infraID \o "-subnet-public-" \o zone

\* ZoneSubnets with the public record cut from the zone's private block.
ZoneSubnetsSameBlock(infraID, zone, privateCIDR, publicCIDR, isPublishingExternal) ==
    <<SubnetSpec(PrivateSubnetID(infraID, zone), zone, privateCIDR, FALSE)>>
    \o (IF isPublishingExternal
        THEN <<SubnetSpec(PublicSubnetID(infraID, zone), zone, privateCIDR, TRUE)>>
        ELSE <<>>)

\* What one iteration of a zone loop appends: the private record and, when
\* publishing externally, the public one.
ZoneSubnets(infraID, zone, privateCIDR, publicCIDR, isPublishingExternal) ==
    <<SubnetSpec(PrivateSubnetID(infraID, zone), zone, privateCIDR, FALSE)>>
    \o (IF isPublishingExternal
        THEN <<SubnetSpec(PublicSubnetID(infraID, zone), zone, publicCIDR, TRUE)>>
        ELSE <<>>)

\* RegularZoneLoop handing out the public blocks from the last one down.
RECURSIVE RegularZoneLoopPublicReversed(_, _, _, _, _, _)
RegularZoneLoopPublicReversed(i, zones, infraID, privateCIDRs, publicCIDRs, isPublishingExternal) ==
    IF i > Len(zones) THEN <<>>
    ELSE ZoneSubnets(infraID, zones[i], String(privateCIDRs[i]),
                     IF isPublishingExternal
                     THEN String(publicCIDRs[Len(zones) + 1 - i]) ELSE EmptyCidr,
                     isPublishingExternal)
         \o RegularZoneLoopPublicReversed(i + 1, zones, infraID, privateCIDRs,
                                          publicCIDRs, isPublishingExternal)

\* The loop over allAvailabilityZones (zones.go:256-271), from index i on.
RECURSIVE RegularZoneLoop(_, _, _, _, _, _)
RegularZoneLoop(i, zones, infraID, privateCIDRs, publicCIDRs, isPublishingExternal) ==
    IF i > Len(zones) THEN <<>>
    ELSE ZoneSubnets(infraID, zones[i], String(privateCIDRs[i]),
                     IF isPublishingExternal THEN String(publicCIDRs[i]) ELSE EmptyCidr,
                     isPublishingExternal)
         \o RegularZoneLoop(i + 1, zones, infraID, privateCIDRs, publicCIDRs,
                            isPublishingExternal)

\* EdgeZoneLoop giving each zone two neighbouring blocks, the private one
\* first.
RECURSIVE EdgeZoneLoopInterleaved(_, _, _, _, _)
EdgeZoneLoopInterleaved(i, zones, infraID, edgeCIDRs, isPublishingExternal) ==
    IF i > Len(zones) THEN <<>>
    ELSE ZoneSubnets(infraID, zones[i],
                     String(edgeCIDRs[IF isPublishingExternal THEN 2 * i - 1 ELSE i]),
                     IF isPublishingExternal THEN String(edgeCIDRs[2 * i]) ELSE EmptyCidr,
                     isPublishingExternal)
         \o EdgeZoneLoopInterleaved(i + 1, zones, infraID, edgeCIDRs, isPublishingExternal)

\* The loop over allEdgeZones (zones.go:298-313), from index i on.
RECURSIVE EdgeZoneLoop(_, _, _, _, _)
EdgeZoneLoop(i, zones, infraID, edgeCIDRs, isPublishingExternal) ==
    IF i > Len(zones) THEN <<>>
    ELSE ZoneSubnets(infraID, zones[i], String(edgeCIDRs[i]),
                     IF isPublishingExternal
                     THEN String(edgeCIDRs[Len(zones) + i]) ELSE EmptyCidr,
                     isPublishingExternal)
         \o EdgeZoneLoop(i + 1, zones, infraID, edgeCIDRs, isPublishingExternal)

\* NumSubnets with one block of the base split per edge zone.
NumSubnetsPerEdgeZone(nZones, nEdgeZones, isPublishingExternal) ==
    nZones + 1 + (IF isPublishingExternal THEN 1 ELSE 0) + nEdgeZones

\* NumSubnets without the block kept for future expansion.
NumSubnetsNoReserve(nZones, nEdgeZones, isPublishingExternal) ==
    nZones + (IF isPublishingExternal THEN 1 ELSE 0)
           + (IF nEdgeZones > 0 THEN 1 ELSE 0)

\* The first split (zones.go:214-227) asks for this many blocks.
NumSubnets(nZones, nEdgeZones, isPublishingExternal) ==
    nZones + 1 + (IF isPublishingExternal THEN 1 ELSE 0)
               + (IF nEdgeZones > 0 THEN 1 ELSE 0)

\* NumEdgeSubnets counting the private edge subnets only.
NumEdgeSubnetsPrivateOnly(nEdgeZones, isPublishingExternal) ==
    nEdgeZones + 1

\* NumEdgeSubnets without the block kept for future expansion.
NumEdgeSubnetsNoReserve(nEdgeZones, isPublishingExternal) ==
    IF isPublishingExternal THEN nEdgeZones * 2 ELSE nEdgeZones

\* The edge split (zones.go:277-286) asks for this many blocks.
NumEdgeSubnets(nEdgeZones, isPublishingExternal) ==
    (IF isPublishingExternal THEN nEdgeZones * 2 ELSE nEdgeZones) + 1

\* One call of utilscidr.SplitIntoSubnetsIPv4 with its arguments.
SplitCall(cidrBlock, numSubnets) ==
    [fn |-> "SplitIntoSubnetsIPv4", cidr |-> cidrBlock, n |-> numSubnets]

\* What setSubnetsManagedVPC leaves behind: the descriptor, the returned
\* error and the split calls it made (c), by name and with their arguments.
Outcome(cl, r, c) ==
    [cluster |-> cl, ret |-> r,
     calls |-> [i \in 1..Len(c) |-> c[i].fn],
     splits |-> [i \in 1..Len(c) |-> [cidr |-> c[i].cidr, n |-> c[i].n]]]

\* setSubnetsManagedEdge taking a failed edge split for an empty one.
setSubnetsManagedEdgeUnchecked(zin, cl, allEdgeZones, edgeCIDR, isPublishingExternal, trace) ==
    IF Len(allEdgeZones) = 0 THEN Outcome(cl, "ok", trace)
    ELSE
    LET numEdgeSubnets == NumEdgeSubnets(Len(allEdgeZones), isPublishingExternal)
        edge == SplitIntoSubnetsIPv4(edgeCIDR, numEdgeSubnets)
        trace1 == Append(trace, SplitCall(edgeCIDR, numEdgeSubnets))
    IN  IF edge.err \/ zin.ClusterID = NIL
        THEN Outcome(cl, "ok", trace1)
        ELSE Outcome([cl EXCEPT !.Subnets = @ \o
                        EdgeZoneLoop(1, allEdgeZones, zin.ClusterID.InfraID,
                                     edge.nets, isPublishingExternal)],
                     "ok", trace1)

\* setSubnetsManagedVPC, the edge part (zones.go:273-316); cl already holds the
\* VPC and the subnets of the regular zones.
setSubnetsManagedEdge(zin, cl, allEdgeZones, edgeCIDR, isPublishingExternal, trace) ==
    IF Len(allEdgeZones) = 0 THEN Outcome(cl, "ok", trace)
    ELSE
    LET numEdgeSubnets == NumEdgeSubnets(Len(allEdgeZones), isPublishingExternal)
        edge == SplitIntoSubnetsIPv4(edgeCIDR, numEdgeSubnets)
        trace1 == Append(trace, SplitCall(edgeCIDR, numEdgeSubnets))
    IN  IF edge.err
        THEN Outcome(cl, "unable to generate CIDR blocks for all edge subnets", trace1)
        ELSE IF Len(edge.nets) < Len(allEdgeZones)
        THEN Outcome(cl, "unable to define CIDR blocks to all edge zones for private subnets", trace1)
        ELSE IF isPublishingExternal /\ Len(edge.nets) < Len(allEdgeZones) * 2
        THEN Outcome(cl, "unable to define CIDR blocks to all edge zones for public subnets", trace1)
        ELSE IF zin.ClusterID = NIL
        THEN Outcome(cl, "panic", trace1)
        ELSE Outcome([cl EXCEPT !.Subnets = @ \o
                        EdgeZoneLoop(1, allEdgeZones, zin.ClusterID.InfraID,
                                     edge.nets, isPublishingExternal)],
                     "ok", trace1)

\* setSubnetsManagedVPC (zones.go:197-317)
setSubnetsManagedVPC(zin, cl) ==
    LET out == extractZonesFromInstallConfig(zin)
        isPublishingExternal ==
            zin.InstallConfig.Config.Publish = ExternalPublishingStrategy
        allAvailabilityZones == AvailabilityZones(out)
        allEdgeZones == EdgeZones(out)
        nZones == Len(allAvailabilityZones)
        mainCIDR == CIDRFromInstallConfig(zin.InstallConfig)
        cl1 == [cl EXCEPT !.VPC = [ID |-> "", CidrBlock |-> mainCIDR]]
        numSubnets == NumSubnets(nZones, Len(allEdgeZones), isPublishingExternal)
        private == SplitIntoSubnetsIPv4(mainCIDR, numSubnets)
        trace1 == <<SplitCall(mainCIDR, numSubnets)>>
    IN  IF private.err
        THEN Outcome(cl1, "unable to generate CIDR blocks for all private subnets", trace1)
        ELSE IF nZones + 1 > Len(private.nets)
                \/ (Len(allEdgeZones) > 0 /\ nZones + 2 > Len(private.nets))
        THEN Outcome(cl1, "panic", trace1)        \* index out of range
        ELSE
        LET publicCIDR == String(private.nets[nZones + 1])
            edgeCIDR == IF Len(allEdgeZones) > 0
                        THEN String(private.nets[nZones + 2]) ELSE EmptyCidr
            public == IF isPublishingExternal
                      THEN SplitIntoSubnetsIPv4(publicCIDR, nZones)
                      ELSE [err |-> FALSE, nets |-> <<>>]
            trace2 == IF isPublishingExternal
                      THEN Append(trace1, SplitCall(publicCIDR, nZones)) ELSE trace1
        IN  IF public.err
            THEN Outcome(cl1, "unable to generate CIDR blocks for all public subnets", trace2)
            ELSE IF Len(private.nets) < nZones
            THEN Outcome(cl1, "unable to define CIDR blocks to all zones for private subnets", trace2)
            ELSE IF isPublishingExternal /\ Len(public.nets) < nZones
            THEN Outcome(cl1, "unable to define CIDR blocks to all zones for public subnets", trace2)
            ELSE IF nZones > 0 /\ zin.ClusterID = NIL
            THEN Outcome(cl1, "panic", trace2)    \* nil dereference of in.ClusterID
            ELSE
            LET cl2 == IF nZones = 0 THEN cl1
                       ELSE [cl1 EXCEPT !.Subnets = @ \o
                               RegularZoneLoop(1, allAvailabilityZones,
                                               zin.ClusterID.InfraID, private.nets,
                                               public.nets, isPublishingExternal)]
            IN  setSubnetsManagedEdge(zin, cl2, allEdgeZones, edgeCIDR,
                                      isPublishingExternal, trace2)

(***************************************************************************)
(* Discovery of existing subnets (BYO VPC)                                 *)
(***************************************************************************)
\* aws.StringValue / aws.BoolValue: the zero value for a nil pointer.
StringValue(p) == IF p = NULL THEN "" ELSE p
BoolValue(p) == p = "true"

\* One `for _, assoc := range table.Associations { if ...; break }` scan.
IsExplicitlyAssociated(table, subnetID) ==
    \E j \in 1..Len(table.Associations) :
        StringValue(table.Associations[j].SubnetId) = subnetID

HasMainAssociation(table) ==
    \E j \in 1..Len(table.Associations) : BoolValue(table.Associations[j].Main)

\* The first loop of isSubnetPublic (subnet.go:209-216): subnetTable after
\* tables i.. have been visited, cur being its value before (0 is nil).
RECURSIVE ScanExplicit(_, _, _, _)
ScanExplicit(rt, subnetID, i, cur) ==
    IF i > Len(rt) THEN cur
    ELSE ScanExplicit(rt, subnetID, i + 1,
                      IF IsExplicitlyAssociated(rt[i], subnetID) THEN i ELSE cur)

\* The second loop of isSubnetPublic (subnet.go:221-230).
RECURSIVE ScanMain(_, _, _)
ScanMain(rt, i, cur) ==
    IF i > Len(rt) THEN cur
    ELSE ScanMain(rt, i + 1, IF HasMainAssociation(rt[i]) THEN i ELSE cur)

\* ResolveRouteTable with the fallback order reversed: the main table first.
ResolveRouteTableMainFirst(rt, subnetID) ==
    LET main == ScanMain(rt, 1, 0)
    IN  IF main = 0 THEN ScanExplicit(rt, subnetID, 1, 0) ELSE main

\* The table isSubnetPublic settles on (its index in rt, 0 for none).
ResolveRouteTable(rt, subnetID) ==
    LET explicit == ScanExplicit(rt, subnetID, 1, 0)
    IN  IF explicit = 0 THEN ScanMain(rt, 1, 0) ELSE explicit

\* HasInternetGatewayRoute taking any gateway target for an internet gateway.
HasAnyGatewayRoute(table) ==
    \E j \in 1..Len(table.Routes) :
        StringValue(table.Routes[j].GatewayId) \notin {"", "local"}

\* The loop over subnetTable.Routes (subnet.go:237-247).
HasInternetGatewayRoute(table) ==
    \E j \in 1..Len(table.Routes) :
        HasPrefix(StringValue(table.Routes[j].GatewayId), "igw")

\* isSubnetPublic taking a subnet without a route table for a private one.
isSubnetPublicAssumePrivate(rt, subnetID) ==
    LET subnetTable == ResolveRouteTable(rt, subnetID)
    IN  [public |-> subnetTable # 0 /\ HasInternetGatewayRoute(rt[subnetTable]),
         err |-> NULL]

\* isSubnetPublic
isSubnetPublic(rt, subnetID) ==
    LET subnetTable == ResolveRouteTable(rt, subnetID)
    IN  IF subnetTable = 0
        THEN [public |-> FALSE, err |-> "could not locate routing table"]
        ELSE [public |-> HasInternetGatewayRoute(rt[subnetTable]), err |-> NULL]

\* A Go map with one more assignment m[k] = v.
MapSet(m, k, v) == (k :> v) @@ m
EmptyMap == <<>>

NoGroups == [Public |-> EmptyMap, Private |-> EmptyMap, Edge |-> EmptyMap]

Discovered(g, v, e) == [groups |-> g, vpc |-> v, err |-> e]

\* DescribeLoop comparing with nothing: every subnet's VPC becomes the
\* baseline.
RECURSIVE DescribeLoopLastSeen(_, _, _, _)
DescribeLoopLastSeen(described, i, vpc, metas) ==
    IF i > Len(described) THEN [metas |-> metas, vpc |-> vpc, err |-> NULL]
    ELSE
    LET subnet == described[i]
    IN  IF subnet.SubnetId = NULL
        THEN DescribeLoopLastSeen(described, i + 1, vpc, metas)
        ELSE IF subnet.SubnetArn = NULL
        THEN [metas |-> metas, vpc |-> vpc, err |-> "has no ARN"]
        ELSE IF subnet.VpcId = NULL
        THEN [metas |-> metas, vpc |-> vpc, err |-> "has no VPC"]
        ELSE IF subnet.AvailabilityZone = NULL
        THEN [metas |-> metas, vpc |-> vpc, err |-> "has not availability zone"]
        ELSE DescribeLoopLastSeen(described, i + 1, subnet.VpcId,
                                  MapSet(metas, subnet.SubnetId,
                                         [ARN |-> subnet.SubnetArn,
                                          Zone |-> subnet.AvailabilityZone,
                                          CIDR |-> subnet.CidrBlock]))

\* The loop over the described subnets (subnet.go:83-113), from index i on;
\* vpc is the first VPC seen so far, metas the records collected so far.
\* Yields [metas, vpc, err].
RECURSIVE DescribeLoop(_, _, _, _)
DescribeLoop(described, i, vpc, metas) ==
    IF i > Len(described) THEN [metas |-> metas, vpc |-> vpc, err |-> NULL]
    ELSE
    LET subnet == described[i]
    IN  IF subnet.SubnetId = NULL
        THEN DescribeLoop(described, i + 1, vpc, metas)
        ELSE IF subnet.SubnetArn = NULL
        THEN [metas |-> metas, vpc |-> vpc, err |-> "has no ARN"]
        ELSE IF subnet.VpcId = NULL
        THEN [metas |-> metas, vpc |-> vpc, err |-> "has no VPC"]
        ELSE IF subnet.AvailabilityZone = NULL
        THEN [metas |-> metas, vpc |-> vpc, err |-> "has not availability zone"]
        ELSE IF vpc # "" /\ subnet.VpcId # vpc
        THEN [metas |-> metas, vpc |-> vpc,
              err |-> "all subnets must belong to the same VPC"]
        ELSE DescribeLoop(described, i + 1,
                          IF vpc = "" THEN subnet.VpcId ELSE vpc,
                          MapSet(metas, subnet.SubnetId,
                                 [ARN |-> subnet.SubnetArn,
                                  Zone |-> subnet.AvailabilityZone,
                                  CIDR |-> subnet.CidrBlock]))

\* ClassifyLoop placing every local-zone subnet in the Edge group, public or
\* not.
RECURSIVE ClassifyLoopEdgeUnchecked(_, _, _, _, _, _, _)
ClassifyLoopEdgeUnchecked(ids, i, metas, routeTables, availabilityZones, vpc, groups) ==
    IF i > Len(ids) THEN Discovered(groups, vpc, NULL)
    ELSE
    LET id == ids[i]
    IN  IF id \notin DOMAIN metas
        THEN Discovered(groups, vpc, "failed to find")
        ELSE
        LET r == isSubnetPublic(routeTables, id)
        IN  IF r.err # NULL THEN Discovered(groups, vpc, r.err)
            ELSE IF metas[id].Zone \notin DOMAIN availabilityZones
            THEN Discovered(groups, vpc, "panic")
            ELSE
            LET meta == [ARN |-> metas[id].ARN, Zone |-> metas[id].Zone,
                         CIDR |-> metas[id].CIDR, Public |-> r.public,
                         ZoneType |-> availabilityZones[metas[id].Zone].ZoneType,
                         ZoneGroup |-> availabilityZones[metas[id].Zone].GroupName]
            IN  IF meta.ZoneType = AvailabilityZoneTypeLocal
                THEN ClassifyLoopEdgeUnchecked(ids, i + 1, metas, routeTables,
                            availabilityZones, vpc,
                            [groups EXCEPT !.Edge = MapSet(@, id, meta)])
                ELSE IF meta.Public
                THEN ClassifyLoopEdgeUnchecked(ids, i + 1, metas, routeTables,
                            availabilityZones, vpc,
                            [groups EXCEPT !.Public = MapSet(@, id, meta)])
                ELSE ClassifyLoopEdgeUnchecked(ids, i + 1, metas, routeTables,
                            availabilityZones, vpc,
                            [groups EXCEPT !.Private = MapSet(@, id, meta)])

\* The loop over ids (subnet.go:157-202), from index i on; groups are the
\* groups filled so far.
RECURSIVE ClassifyLoop(_, _, _, _, _, _, _)
ClassifyLoop(ids, i, metas, routeTables, availabilityZones, vpc, groups) ==
    IF i > Len(ids) THEN Discovered(groups, vpc, NULL)
    ELSE
    LET id == ids[i]
    IN  IF id \notin DOMAIN metas
        THEN Discovered(groups, vpc, "failed to find")
        ELSE
        LET r == isSubnetPublic(routeTables, id)
        IN  IF r.err # NULL THEN Discovered(groups, vpc, r.err)
            ELSE IF metas[id].Zone \notin DOMAIN availabilityZones
            THEN Discovered(groups, vpc, "panic")
            ELSE
            LET meta == [ARN |-> metas[id].ARN, Zone |-> metas[id].Zone,
                         CIDR |-> metas[id].CIDR, Public |-> r.public,
                         ZoneType |-> availabilityZones[metas[id].Zone].ZoneType,
                         ZoneGroup |-> availabilityZones[metas[id].Zone].GroupName]
            IN  IF meta.ZoneType = AvailabilityZoneTypeLocal
                THEN IF ~meta.Public
                     THEN Discovered(groups, vpc,
                            "Local Zones subnets must be associated with public route tables")
                     ELSE ClassifyLoop(ids, i + 1, metas, routeTables, availabilityZones, vpc,
                            [groups EXCEPT !.Edge = MapSet(@, id, meta)])
                ELSE IF meta.Public
                THEN ClassifyLoop(ids, i + 1, metas, routeTables, availabilityZones, vpc,
                            [groups EXCEPT !.Public = MapSet(@, id, meta)])
                ELSE ClassifyLoop(ids, i + 1, metas, routeTables, availabilityZones, vpc,
                            [groups EXCEPT !.Private = MapSet(@, id, meta)])

\* subnets (subnet.go:63-204) against the answers the cloud API gives.
subnets(api, ids) ==
    LET d == DescribeLoop(api.describedSubnets, 1, "", EmptyMap)
    IN  IF d.err # NULL THEN Discovered(NoGroups, d.vpc, d.err)
        ELSE ClassifyLoop(ids, 1, d.metas, api.routeTables, api.availabilityZones,
                          d.vpc, NoGroups)

(***************************************************************************)
(* The metadata collaborator (installconfig/aws Metadata)                  *)
(***************************************************************************)
\* One group of the discovery as the aws.Subnets the planner reads: each
\* subnet annotated with ID, CIDR, zone and public flag.
MetadataSubnets(group) ==
    [id \in DOMAIN group |->
        [ID |-> id, CIDR |-> group[id].CIDR,
         Zone |-> [Name |-> group[id].Zone], Public |-> group[id].Public]]

\* zonesInput.GatherSubnetsFromMetadata: PrivateSubnets, PublicSubnets,
\* EdgeSubnets and VPC, in that order; all four answer from one discovery.
GatherSubnetsFromMetadata(zin, api) ==
    LET found == subnets(api, zin.InstallConfig.Config.AWS.Subnets)
    IN  IF found.err # NULL
        THEN [zin |-> [zin EXCEPT !.Subnets =
                         [vpc |-> "", privateSubnets |-> EmptyMap,
                          publicSubnets |-> EmptyMap, edgeSubnets |-> EmptyMap]],
              err |-> IF found.err = "panic" THEN "panic"
                      ELSE "failed to get subnets from metadata",
              calls |-> <<"PrivateSubnets">>]
        ELSE [zin |-> [zin EXCEPT !.Subnets =
                         [vpc |-> found.vpc,
                          privateSubnets |-> MetadataSubnets(found.groups.Private),
                          publicSubnets |-> MetadataSubnets(found.groups.Public),
                          edgeSubnets |-> MetadataSubnets(found.groups.Edge)]],
              err |-> NULL,
              calls |-> <<"PrivateSubnets", "PublicSubnets", "EdgeSubnets", "VPC">>]

\* GatherZonesFromMetadata asking a second time after a failure.
GatherZonesFromMetadataRetry(zin, api) ==
    IF api.zonesErr # NULL
    THEN [zin |-> [zin EXCEPT !.ZonesInRegion = api.zonesInRegion],
          err |-> NULL,
          calls |-> <<"AvailabilityZones", "AvailabilityZones">>]
    ELSE [zin |-> [zin EXCEPT !.ZonesInRegion = api.zonesInRegion],
          err |-> NULL,
          calls |-> <<"AvailabilityZones">>]

\* zonesInput.GatherZonesFromMetadata
GatherZonesFromMetadata(zin, api) ==
    IF api.zonesErr # NULL
    THEN [zin |-> [zin EXCEPT !.ZonesInRegion = <<>>],
          err |-> "failed to get availability zones",
          calls |-> <<"AvailabilityZones">>]
    ELSE [zin |-> [zin EXCEPT !.ZonesInRegion = api.zonesInRegion],
          err |-> NULL,
          calls |-> <<"AvailabilityZones">>]

(***************************************************************************)
(* The planner, BYO VPC                                                    *)
(***************************************************************************)
\* BYOGroupLoop leaving the loop after the first subnet.
BYOGroupLoopFirstOnly(group, order) ==
    [k \in 1..(IF Len(order) > 0 THEN 1 ELSE 0) |->
        SubnetSpec(group[order[k]].ID, group[order[k]].Zone.Name,
                   group[order[k]].CIDR, group[order[k]].Public)]

\* One `for _, subnet := range group` loop of setSubnetsBYOVPC, the keys
\* visited in the given order.
BYOGroupLoop(group, order) ==
    [k \in 1..Len(order) |->
        SubnetSpec(group[order[k]].ID, group[order[k]].Zone.Name,
                   group[order[k]].CIDR, group[order[k]].Public)]

\* setSubnetsBYOVPC assigning the Subnets list instead of appending to it.
setSubnetsBYOVPCClearing(zin, cl, privateOrder, publicOrder, edgeOrder) ==
    [cl EXCEPT !.VPC = [ID |-> zin.Subnets.vpc, CidrBlock |-> EmptyCidr],
               !.Subnets = BYOGroupLoop(zin.Subnets.privateSubnets, privateOrder)
                             \o BYOGroupLoop(zin.Subnets.publicSubnets, publicOrder)
                             \o BYOGroupLoop(zin.Subnets.edgeSubnets, edgeOrder)]

\* setSubnetsBYOVPC without the loop over the edge subnets.
setSubnetsBYOVPCNoEdge(zin, cl, privateOrder, publicOrder, edgeOrder) ==
    [cl EXCEPT !.VPC = [ID |-> zin.Subnets.vpc, CidrBlock |-> EmptyCidr],
               !.Subnets = @ \o BYOGroupLoop(zin.Subnets.privateSubnets, privateOrder)
                             \o BYOGroupLoop(zin.Subnets.publicSubnets, publicOrder)]

\* setSubnetsBYOVPC (zones.go:151-185) for one order of visiting each map.
setSubnetsBYOVPC(zin, cl, privateOrder, publicOrder, edgeOrder) ==
    [cl EXCEPT !.VPC = [ID |-> zin.Subnets.vpc, CidrBlock |-> EmptyCidr],
               !.Subnets = @ \o BYOGroupLoop(zin.Subnets.privateSubnets, privateOrder)
                             \o BYOGroupLoop(zin.Subnets.publicSubnets, publicOrder)
                             \o BYOGroupLoop(zin.Subnets.edgeSubnets, edgeOrder)]

(***************************************************************************)
(* The planner's entry point                                               *)
(***************************************************************************)
\* The mode switch with an off-by-one: one listed subnet is not enough.
IsBYOVPCOffByOne(config) == Len(config.AWS.Subnets) > 1

\* The mode switch of setSubnets (zones.go:132).
IsBYOVPC(config) == Len(config.AWS.Subnets) > 0

\* What one call of setSubnets leaves behind; no split was called unless
\* the managed path says so.
Result(zin, cl, r, c) ==
    [zin |-> zin, cluster |-> cl, ret |-> r, calls |-> c, splits |-> <<>>]

\* setSubnets (zones.go:119-143): the set of results the call can have (a Go
\* map is visited in any order).
setSubnets(zin, cl, api) ==
    IF zin.InstallConfig = NIL
    THEN {Result(zin, cl, "failed to get installConfig", <<>>)}
    ELSE IF zin.InstallConfig.AWS = NULL
    THEN {Result(zin, cl, "failed to get AWS metadata", <<>>)}
    ELSE IF zin.InstallConfig.Config = NIL
    THEN {Result(zin, cl, "unable to get Config", <<>>)}
    ELSE IF cl = NIL
    THEN {Result(zin, cl, "failed to get AWSCluster config", <<>>)}
    ELSE IF zin.InstallConfig.Config.AWS = NIL
    THEN {Result(zin, cl, "panic", <<>>)}
    ELSE IF IsBYOVPC(zin.InstallConfig.Config)
    THEN LET g == GatherSubnetsFromMetadata(zin, api)
         IN  IF g.err # NULL
             THEN {Result(g.zin, cl, g.err, g.calls)}
             ELSE {Result(g.zin,
                          setSubnetsBYOVPC(g.zin, cl, privateOrder, publicOrder, edgeOrder),
                          "ok", g.calls) :
                      privateOrder \in Perms(DOMAIN g.zin.Subnets.privateSubnets),
                      publicOrder \in Perms(DOMAIN g.zin.Subnets.publicSubnets),
                      edgeOrder \in Perms(DOMAIN g.zin.Subnets.edgeSubnets)}
    ELSE LET g == GatherZonesFromMetadata(zin, api)
             m == setSubnetsManagedVPC(g.zin, cl)
         IN  IF g.err # NULL
             THEN {Result(g.zin, cl, "failed to get availability zones from metadata",
                          g.calls)}
             ELSE {[Result(g.zin, m.cluster, m.ret, g.calls \o m.calls)
                       EXCEPT !.splits = m.splits]}

(***************************************************************************)
(* Inputs: install configurations and cloud answers                        *)
(***************************************************************************)
Cidr(a, b, c, d, bits) == [ip |-> <<a, b, c, d>>, bits |-> bits]

\* Machine networks: the default, one in the upper half of the address
\* space, and one too small for most plans.
MachineCIDRs == {Cidr(10, 0, 0, 0, 16), Cidr(172, 16, 0, 0, 12), Cidr(10, 0, 0, 0, 30)}

RegionZoneNames == <<"a", "b", "c", "d", "e">>
ZonesInRegionChoices == {SubSeq(RegionZoneNames, 1, k) : k \in 0..MaxRegionZones}

AWSPool(zones) == [Zones |-> zones]
MachinePool(name, platform) == [Name |-> name, AWS |-> platform]

DefaultMachinePlatforms == {NIL, AWSPool(<<"b">>)}

ControlPlanePools ==
    {NIL,
     MachinePool(MachinePoolControlPlaneRoleName, NIL),
     MachinePool(MachinePoolControlPlaneRoleName, AWSPool(<<"c", "a">>))}

ComputePools ==
    {MachinePool(MachinePoolComputeRoleName, NIL),
     MachinePool(MachinePoolComputeRoleName, AWSPool(<<>>)),
     MachinePool(MachinePoolComputeRoleName, AWSPool(<<"b", "c">>)),
     MachinePool(MachinePoolEdgeRoleName, AWSPool(<<"edge-a">>)),
     MachinePool(MachinePoolEdgeRoleName, AWSPool(<<"edge-b", "edge-a">>)),
     MachinePool(MachinePoolEdgeRoleName, AWSPool(<<"a">>))}

InstallConfig(publish, cidr, ids, dmp, controlPlane, compute) ==
    [Publish |-> publish,
     MachineNetwork |-> <<cidr>>,
     AWS |-> [Subnets |-> ids, DefaultMachinePlatform |-> dmp],
     ControlPlane |-> controlPlane,
     Compute |-> compute]

ZonesInput(config) ==
    [InstallConfig |-> [AWS |-> "metadata", Config |-> config],
     ClusterID |-> [InfraID |-> "infra-id"],
     ZonesInRegion |-> <<>>,
     Subnets |-> NIL]

\* A new AWSCluster: an empty NetworkSpec.
FreshCluster == [VPC |-> [ID |-> "", CidrBlock |-> EmptyCidr], Subnets |-> <<>>]

\* ec2.DescribeAvailabilityZones for the zones subnets live in.
ZoneFacts ==
    [z \in {"a", "b", "edge-a", "wl-a"} |->
        IF z = "edge-a"
        THEN [ZoneType |-> AvailabilityZoneTypeLocal, GroupName |-> "us-east-1-nyc-1"]
        ELSE IF z = "wl-a"
        THEN [ZoneType |-> WavelengthZoneType, GroupName |-> "us-east-1-wl1-bos-wlz-1"]
        ELSE [ZoneType |-> RegularZoneType, GroupName |-> "us-east-1"]]

Cloud(zones, described, tables) ==
    [zonesInRegion |-> zones, zonesErr |-> NULL, describedSubnets |-> described,
     routeTables |-> tables, availabilityZones |-> ZoneFacts]

SubnetIdNames == <<"subnet-1", "subnet-2", "subnet-3", "subnet-4">>
SubnetIds == {SubnetIdNames[k] : k \in 1..MaxSubnets}

\* The install config's subnet list: the first k identifiers.
SubnetIdLists == {SubSeq(SubnetIdNames, 1, k) : k \in 1..MaxSubnets}

SubnetCIDR(id) ==
    LET k == CHOOSE j \in 1..Len(SubnetIdNames) : SubnetIdNames[j] = id
    IN  Cidr(10, 0, k, 0, 24)

\* ec2.Subnet
DescribedSubnet(id, arn, vpc, zone) ==
    [SubnetId |-> id, SubnetArn |-> arn, VpcId |-> vpc,
     AvailabilityZone |-> zone,
     CidrBlock |-> IF id = NULL THEN Cidr(10, 0, 0, 0, 24) ELSE SubnetCIDR(id)]

\* Well-formed subnets of two VPCs in a regular and in a local zone, and
\* answers that lack a field.
DescribedSubnets ==
    {DescribedSubnet(id, "arn:" \o id, vpc, zone) :
        id \in SubnetIds, vpc \in {"vpc-1", "vpc-2"}, zone \in {"a", "edge-a"}}
    \cup {DescribedSubnet(NULL, "arn", "vpc-2", "a"),
          DescribedSubnet("subnet-1", NULL, "vpc-2", "a"),
          DescribedSubnet("subnet-1", "arn:subnet-1", NULL, "a"),
          DescribedSubnet("subnet-1", "arn:subnet-1", "vpc-2", NULL)}

\* ec2.RouteTableAssociation, ec2.Route, ec2.RouteTable
Association(subnetID, main) == [SubnetId |-> subnetID, Main |-> main]
Route(gatewayID) == [GatewayId |-> gatewayID]
RouteTable(associations, routes) == [Associations |-> associations, Routes |-> routes]

MainAssociation == Association(NULL, "true")
LocalRoute == Route("local")
InternetGatewayRoute == Route("igw-0a1b")
NatGatewayRoute == Route(NULL)      \* a NAT gateway route has no GatewayId
VirtualGatewayRoute == Route("vgw-0c2d")
PeeringRoute == Route("pcx-0e3f")

\* Route tables of a VPC as the planner meets them.
PlannerRouteTables ==
    {RouteTable(<<MainAssociation>>, <<LocalRoute, InternetGatewayRoute>>),
     RouteTable(<<MainAssociation>>, <<LocalRoute, NatGatewayRoute>>),
     RouteTable(<<Association("subnet-1", "false")>>, <<LocalRoute, InternetGatewayRoute>>),
     RouteTable(<<Association("subnet-1", "false")>>, <<LocalRoute, NatGatewayRoute>>),
     RouteTable(<<Association("subnet-2", NULL)>>, <<LocalRoute, InternetGatewayRoute>>),
     RouteTable(<<Association("subnet-2", NULL)>>, <<LocalRoute>>)}

PlannerInput(zin, api, cl) == [in |-> zin, cloud |-> api, cluster |-> cl]

\* Managed VPC: no subnet identifiers in the install config.
ManagedInput(publish, cidr, zones, dmp, controlPlane, compute) ==
    PlannerInput(ZonesInput(InstallConfig(publish, cidr, <<>>, dmp, controlPlane, compute)),
                 Cloud(zones, <<>>, <<>>), FreshCluster)

BYOInstallConfig(ids) ==
    InstallConfig(ExternalPublishingStrategy, Cidr(10, 0, 0, 0, 16), ids, NIL, NIL,
                  <<MachinePool(MachinePoolComputeRoleName, AWSPool(<<"b", "c">>))>>)

\* BYO VPC, any DescribeSubnets answer, the VPC's main route table public
\* or private.
MainRouteTables ==
    {RouteTable(<<MainAssociation>>, <<LocalRoute, InternetGatewayRoute>>),
     RouteTable(<<MainAssociation>>, <<LocalRoute, NatGatewayRoute>>)}

BYODescribeInput(ids, described, table) ==
    PlannerInput(ZonesInput(BYOInstallConfig(ids)),
                 Cloud(<<"a", "b">>, described, <<table>>), FreshCluster)

\* BYO VPC, every listed subnet described and of one VPC, any route tables.
BYORouteInput(ids, zoneOf, tables) ==
    PlannerInput(ZonesInput(BYOInstallConfig(ids)),
                 Cloud(<<"a", "b">>,
                       [k \in 1..Len(ids) |->
                           DescribedSubnet(ids[k], "arn:" \o ids[k], "vpc-1", zoneOf[k])],
                       tables),
                 FreshCluster)

\* Managed VPC, the request for the region's zones fails.
ZonesFailureInput(publish, compute) ==
    LET x == ManagedInput(publish, Cidr(10, 0, 0, 0, 16), <<>>, NIL, NIL, compute)
    IN  [x EXCEPT !.cloud.zonesErr = "RequestError"]

\* An upstream fact is missing.
MissingInputs ==
    LET config == InstallConfig(ExternalPublishingStrategy, Cidr(10, 0, 0, 0, 16),
                                <<>>, NIL, NIL, <<>>)
        zin == ZonesInput(config)
        api == Cloud(<<"a", "b">>, <<>>, <<>>)
    IN  {PlannerInput([zin EXCEPT !.InstallConfig = NIL], api, FreshCluster),
         PlannerInput([zin EXCEPT !.InstallConfig.AWS = NULL], api, FreshCluster),
         PlannerInput([zin EXCEPT !.InstallConfig.Config = NIL], api, FreshCluster),
         PlannerInput([zin EXCEPT !.InstallConfig.Config.AWS = NIL], api, FreshCluster),
         PlannerInput([zin EXCEPT !.ClusterID = NIL], api, FreshCluster),
         PlannerInput(zin, api, NIL)}

\* isSubnetPublic on its own: associations and routes of every kind.
AssociationLists ==
    {<<>>,
     <<MainAssociation>>,
     <<Association("subnet-1", "false")>>,
     <<Association("subnet-2", "false")>>,
     <<MainAssociation, Association("subnet-1", NULL)>>,
     <<Association("subnet-2", NULL), Association("subnet-1", NULL)>>}

RouteLists ==
    {<<>>,
     <<LocalRoute>>,
     <<LocalRoute, InternetGatewayRoute>>,
     <<LocalRoute, NatGatewayRoute>>,
     <<LocalRoute, VirtualGatewayRoute>>,
     <<LocalRoute, PeeringRoute>>,
     <<LocalRoute, VirtualGatewayRoute, PeeringRoute, InternetGatewayRoute>>}

RouteTables == {RouteTable(a, r) : a \in AssociationLists, r \in RouteLists}

NotCalled == [public |-> FALSE, err |-> "not called"]
NoOp == [fn |-> "none"]
NotDiscovered == [groups |-> <<>>, vpc |-> "", err |-> "not called"]

(***************************************************************************)
(* Elastic IP reconciliation of a machine's instance                       *)
(*   cluster-api-provider-aws pkg/cloud/services/ec2/eip.go                *)
(*   cluster-api-provider-aws pkg/cloud/services/network/eips.go           *)
(*                                                                         *)
(* Representation                                                          *)
(*   - an ec2.Address is a record; its AssociationId and InstanceId are    *)
(*     NULL while the address is free, and an address associated with a    *)
(*     network interface that belongs to no instance has an AssociationId  *)
(*     and no InstanceId;                                                  *)
(*   - the addresses EC2 holds are a sequence, in the order                *)
(*     DescribeAddresses lists them;                                       *)
(*   - api is what EC2 answers during one reconciliation: whether each     *)
(*     call succeeds, and what the public IPv4 pool has left.              *)
(***************************************************************************)
eipRoleCustomEC2 == "ec2-custom"

getElasticIPRoleName(instanceID) == "ec2-" \o instanceID

InstanceStatePending == "pending"
InstanceStateRunning == "running"
InstanceStateStopped == "stopped"

PublicIpv4PoolFallbackOrderAmazonPool == "amazon-pool"
PublicIpv4PoolFallbackOrderNone == "none"

Address(id, role, assoc, inst) ==
    [AllocationId |-> id, Role |-> role, AssociationId |-> assoc, InstanceId |-> inst]

\* The request fails, or lists the cluster's addresses tagged with the role
\* (every address of the model carries the cluster's tag).
describeAddresses(addresses, role, ok) ==
    IF ok
    THEN [Addresses |-> SelectSeq(addresses, LAMBDA a : role = "" \/ a.Role = role),
          err |-> NULL]
    ELSE [Addresses |-> <<>>, err |-> "RequestError"]

\* The exported accessor the reconciler queries addresses with.
GetAddresses(addresses, role, ok) == describeAddresses(addresses, role, ok)

\* answer is what DescribePublicIpv4Pools reports: "yes" (an address is
\* available), "no", or "error" (the request fails).
publicIpv4PoolHasFreeIPs(answer) ==
    [ok |-> answer = "yes",
     err |-> IF answer = "error" THEN "failed to describe elastic IPs" ELSE NULL]

\* Allocates one address tagged with the role; pool is the pool the
\* allocation is asked from (NIL: Amazon's).
allocateAddress(addresses, pool, role, api) ==
    LET fromPool == pool # NIL /\ pool.PublicIpv4Pool # NULL
        has == publicIpv4PoolHasFreeIPs(api.poolHasFree)
        asked == IF fromPool THEN <<"DescribePublicIpv4Pools">> ELSE <<>>
        new == Address("eipalloc-" \o ToString(Len(addresses) + 1), role, NULL, NULL)
    IN  IF fromPool /\ has.err # NULL
        THEN [ip |-> "", err |-> "failed to allocate Elastic IP from PublicIpv4 Pool",
              addresses |-> addresses, made |-> asked]
        ELSE IF /\ fromPool
                /\ ~has.ok
                /\ pool.PublicIpv4PoolFallBackOrder # NULL
                /\ pool.PublicIpv4PoolFallBackOrder = PublicIpv4PoolFallbackOrderNone
        THEN [ip |-> "",
              err |-> "failed to allocate Elastic IP from PublicIpv4 Pool and use fallback with strategy none",
              addresses |-> addresses, made |-> asked]
        ELSE IF ~api.allocate
        THEN [ip |-> "", err |-> "failed to allocate Elastic IP",
              addresses |-> addresses, made |-> Append(asked, "AllocateAddress")]
        ELSE [ip |-> new.AllocationId, err |-> NULL,
              addresses |-> Append(addresses, new),
              made |-> Append(asked, "AllocateAddress")]

\* for len(eips) < num { allocateAddress } (eips.go:49-55).
RECURSIVE AllocateLoop(_, _, _, _, _, _, _)
AllocateLoop(addresses, pool, num, role, api, eips, made) ==
    IF Len(eips) >= num
    THEN [eips |-> eips, err |-> NULL, addresses |-> addresses, made |-> made]
    ELSE LET a == allocateAddress(addresses, pool, role, api)
         IN  IF a.err # NULL
             THEN [eips |-> <<>>, err |-> a.err, addresses |-> a.addresses,
                   made |-> made \o a.made]
             ELSE AllocateLoop(a.addresses, pool, num, role, api,
                               Append(eips, a.ip), made \o a.made)

\* Reuses the role's addresses without an association and allocates the rest.
getOrAllocateAddresses(addresses, pool, num, role, api) ==
    LET out == describeAddresses(addresses, role, api.describeAddresses)
        reuse == SelectSeq(out.Addresses, LAMBDA a : a.AssociationId = NULL)
    IN  IF out.err # NULL
        THEN [eips |-> <<>>, err |-> "failed to query addresses",
              addresses |-> addresses, made |-> <<"DescribeAddresses">>]
        ELSE AllocateLoop(addresses, pool, num, role, api,
                          [i \in 1..Len(reuse) |-> reuse[i].AllocationId],
                          <<"DescribeAddresses">>)

GetOrAllocateAddresses(addresses, pool, num, role, api) ==
    getOrAllocateAddresses(addresses, pool, num, role, api)

\* What a successful AssociateAddress request leaves in EC2.
AssociateAddress(addresses, instanceID, allocationID) ==
    [i \in 1..Len(addresses) |->
        IF addresses[i].AllocationId = allocationID
        THEN [addresses[i] EXCEPT !.AssociationId = "eipassoc-" \o allocationID,
                                  !.InstanceId = instanceID]
        ELSE addresses[i]]

getAndAssociateAddressesToInstance(addresses, pool, role, instanceID, api) ==
    LET g == GetOrAllocateAddresses(addresses, pool, 1, role, api)
    IN  IF g.err # NULL
        THEN [err |-> g.err, addresses |-> g.addresses, made |-> g.made]
        ELSE IF Len(g.eips) = 0
        THEN [err |-> "no Elastic IP found for role", addresses |-> g.addresses,
              made |-> g.made]
        ELSE IF ~api.associate
        THEN [err |-> "failed to associate Elastic IP", addresses |-> g.addresses,
              made |-> Append(g.made, "AssociateAddress")]
        ELSE [err |-> NULL,
              addresses |-> AssociateAddress(g.addresses, instanceID, g.eips[1]),
              made |-> Append(g.made, "AssociateAddress")]

\* What a reconciliation hands back: the two return values, the addresses
\* EC2 holds afterwards and the EC2 requests made.
Reconciled(requeue, err, addresses, made) ==
    [requeue |-> requeue, err |-> err, addresses |-> addresses, made |-> made]

reconcileElasticIPFromPublicPool(addresses, pool, instance, api) ==
    IF pool = NIL
    THEN Reconciled(FALSE, "invalid ElasticIPPool configuration", addresses, <<>>)
    ELSE IF instance.State # InstanceStateRunning
    THEN Reconciled(TRUE, NULL, addresses, <<>>)
    ELSE LET role == getElasticIPRoleName(instance.ID)
             addrs == GetAddresses(addresses, role, api.getAddresses)
             asked == <<"DescribeAddresses">>
             done == getAndAssociateAddressesToInstance(addresses, pool, role,
                                                        instance.ID, api)
         IN  IF addrs.err # NULL
             THEN Reconciled(FALSE, addrs.err, addresses, asked)
             ELSE IF Len(addrs.Addresses) > 0 /\ Len(addrs.Addresses) # 1
             THEN Reconciled(FALSE, "unexpected number of EIPs allocated to the role",
                             addresses, asked)
             ELSE IF /\ Len(addrs.Addresses) > 0
                     /\ addrs.Addresses[1].AssociationId # NULL
                     /\ addrs.Addresses[1].InstanceId # NULL
                     /\ addrs.Addresses[1].InstanceId = instance.ID
             THEN Reconciled(FALSE, NULL, addresses, asked)
             ELSE IF done.err # NULL
             THEN Reconciled(FALSE, "failed to reconcile Elastic IP", done.addresses,
                             asked \o done.made)
             ELSE Reconciled(FALSE, NULL, done.addresses, asked \o done.made)

\* The loop over the role's addresses (eip.go:118-128): collects the
\* addresses without an association or without an instance and stops at an
\* address of the instance.
RECURSIVE UnassociatedLoop(_, _, _, _)
UnassociatedLoop(addrs, i, instanceID, unassociated) ==
    IF i > Len(addrs)
    THEN [associated |-> FALSE, unassociatedAddresses |-> unassociated]
    ELSE LET addr == addrs[i]
             seen == IF addr.AssociationId = NULL \/ addr.InstanceId = NULL
                     THEN Append(unassociated, addr)
                     ELSE unassociated
         IN  IF addr.InstanceId # NULL /\ addr.InstanceId = instanceID
             THEN [associated |-> TRUE, unassociatedAddresses |-> seen]
             ELSE UnassociatedLoop(addrs, i + 1, instanceID, seen)

ReconcileElasticIP(addresses, pool, instance, api) ==
    IF pool # NIL
    THEN reconcileElasticIPFromPublicPool(addresses, pool, instance, api)
    ELSE LET addrs == GetAddresses(addresses, eipRoleCustomEC2, api.getAddresses)
             asked == <<"DescribeAddresses">>
             loop == UnassociatedLoop(addrs.Addresses, 1, instance.ID, <<>>)
             done == getAndAssociateAddressesToInstance(addresses, NIL, eipRoleCustomEC2,
                                                        instance.ID, api)
         IN  IF addrs.err # NULL
             THEN Reconciled(TRUE, addrs.err, addresses, asked)
             ELSE IF Len(addrs.Addresses) = 0
             THEN Reconciled(FALSE, NULL, addresses, asked)
             ELSE IF loop.associated
             THEN Reconciled(FALSE, NULL, addresses, asked)
             ELSE IF Len(loop.unassociatedAddresses) = 0
             THEN Reconciled(FALSE, NULL, addresses, asked)
             ELSE IF instance.State # InstanceStateRunning
             THEN Reconciled(TRUE, NULL, addresses, asked)
             ELSE IF done.err # NULL
             THEN Reconciled(FALSE, "failed to reconcile Elastic IP", done.addresses,
                             asked \o done.made)
             ELSE Reconciled(FALSE, NULL, done.addresses, asked \o done.made)

\* No reconciliation has run / no instance is under reconciliation.
NoEC2 == [nil |-> TRUE]
NotReconciled == [fn |-> "none"]

(***************************************************************************)
(* The planner as a state machine                                          *)
(***************************************************************************)
\* The planner is handed input x and has not been called.
Start(x) ==
    /\ in = x.in
    /\ cloud = x.cloud
    /\ cluster = x.cluster

Init ==
    /\ \/ \E publish \in {ExternalPublishingStrategy, InternalPublishingStrategy},
             cidr \in MachineCIDRs,
             zones \in ZonesInRegionChoices,
             dmp \in DefaultMachinePlatforms,
             controlPlane \in ControlPlanePools,
             n \in 0..MaxPools :
             \E compute \in [1..n -> ComputePools] :
                 Start(ManagedInput(publish, cidr, zones, dmp, controlPlane, compute))
       \/ \E ids \in SubnetIdLists, n \in 0..MaxSubnets, table \in MainRouteTables :
             \E described \in [1..n -> DescribedSubnets] :
                 Start(BYODescribeInput(ids, described, table))
       \/ \E ids \in SubnetIdLists, n \in 0..MaxTables :
             \E zoneOf \in [1..Len(ids) -> {"a", "edge-a"}],
                tables \in [1..n -> PlannerRouteTables] :
                 Start(BYORouteInput(ids, zoneOf, tables))
       \/ \E x \in MissingInputs : Start(x)
       \/ \E publish \in {ExternalPublishingStrategy, InternalPublishingStrategy},
             n \in 0..1 :
             \E compute \in [1..n -> ComputePools] :
                 Start(ZonesFailureInput(publish, compute))
    /\ ret = NULL
    /\ calls = <<>>
    /\ splits = <<>>
    /\ hist = <<>>
    /\ rtIn = [rt |-> <<>>, subnetID |-> ""]
    /\ rtOut = NotCalled
    /\ subnetsOut = NotDiscovered
    /\ zoSets = NewZonesCAPI
    /\ zoOp = NoOp
    /\ ec2 = NoEC2
    /\ eipOut = NotReconciled

\* One call of setSubnets, on the descriptor of the previous call or on a new
\* one.
SetSubnets ==
    /\ Len(hist) < MaxCalls
    /\ ret # "panic"
    /\ \E d \in (IF cluster = NIL THEN {NIL} ELSE {cluster, FreshCluster}) :
          \E r \in setSubnets(in, d, cloud) :
              /\ in' = r.zin
              /\ cluster' = r.cluster
              /\ ret' = r.ret
              /\ calls' = r.calls
              /\ splits' = r.splits
              /\ hist' = Append(hist, [before |-> d, after |-> r.cluster, ret |-> r.ret])
    /\ UNCHANGED <<cloud, rtIn, rtOut, subnetsOut, zoSets, zoOp, ec2, eipOut>>

Next == SetSubnets

Spec == Init /\ [][Next]_vars

(***************************************************************************)
(* setSubnetsManagedVPC on its own: one call on a new descriptor           *)
(***************************************************************************)
InitManaged ==
    /\ \E publish \in {ExternalPublishingStrategy, InternalPublishingStrategy},
          cidr \in MachineCIDRs,
          zones \in ZonesInRegionChoices,
          dmp \in DefaultMachinePlatforms,
          controlPlane \in ControlPlanePools,
          n \in 0..MaxPools :
          \E compute \in [1..n -> ComputePools] :
              Start(ManagedInput(publish, cidr, zones, dmp, controlPlane, compute))
    /\ ret = NULL
    /\ calls = <<>>
    /\ splits = <<>>
    /\ hist = <<>>
    /\ rtIn = [rt |-> <<>>, subnetID |-> ""]
    /\ rtOut = NotCalled
    /\ subnetsOut = NotDiscovered
    /\ zoSets = NewZonesCAPI
    /\ zoOp = NoOp
    /\ ec2 = NoEC2
    /\ eipOut = NotReconciled

\* The first call of setSubnets, which reaches setSubnetsManagedVPC when the
\* zones of the region are known.
SetSubnetsOnce ==
    /\ hist = <<>>
    /\ \E r \in setSubnets(in, cluster, cloud) :
          /\ in' = r.zin
          /\ cluster' = r.cluster
          /\ ret' = r.ret
          /\ calls' = r.calls
          /\ splits' = r.splits
          /\ hist' = <<[before |-> cluster, after |-> r.cluster, ret |-> r.ret]>>
    /\ UNCHANGED <<cloud, rtIn, rtOut, subnetsOut, zoSets, zoOp, ec2, eipOut>>

NextManaged == SetSubnetsOnce

SpecManaged == InitManaged /\ [][NextManaged]_vars

(***************************************************************************)
(* isSubnetPublic as a state machine                                       *)
(***************************************************************************)
InitRoute ==
    /\ \E n \in 0..MaxTables :
          \E rt \in [1..n -> RouteTables], subnetID \in {"subnet-1", "subnet-2"} :
              rtIn = [rt |-> rt, subnetID |-> subnetID]
    /\ rtOut = NotCalled
    /\ subnetsOut = NotDiscovered
    /\ zoSets = NewZonesCAPI
    /\ zoOp = NoOp
    /\ ec2 = NoEC2
    /\ eipOut = NotReconciled
    /\ in = NIL
    /\ cloud = NIL
    /\ cluster = NIL
    /\ ret = NULL
    /\ calls = <<>>
    /\ splits = <<>>
    /\ hist = <<>>

IsSubnetPublic ==
    /\ rtOut = NotCalled
    /\ rtOut' = isSubnetPublic(rtIn.rt, rtIn.subnetID)
    /\ UNCHANGED <<in, cloud, cluster, ret, calls, splits, hist, rtIn, subnetsOut, zoSets, zoOp, ec2, eipOut>>

NextRoute == IsSubnetPublic

SpecRoute == InitRoute /\ [][NextRoute]_vars

(***************************************************************************)
(* subnets (the discovery) as a state machine                              *)
(***************************************************************************)
\* The subnets the cloud describes for the listed ids: one per id, each in a
\* zone of any type, or the last one left out of the answer.
DiscoveryZones == {"a", "edge-a", "wl-a"}

DescribedFor(ids, zoneOf, n) ==
    [k \in 1..n |-> DescribedSubnet(ids[k], "arn:" \o ids[k], "vpc-1", zoneOf[k])]

InitDiscovery ==
    /\ \E ids \in SubnetIdLists, t \in 0..MaxTables :
          \E zoneOf \in [1..Len(ids) -> DiscoveryZones],
             tables \in [1..t -> PlannerRouteTables],
             n \in {Len(ids) - 1, Len(ids)} :
              /\ in = ZonesInput(BYOInstallConfig(ids))
              /\ cloud = Cloud(<<"a", "b">>, DescribedFor(ids, zoneOf, n), tables)
    /\ cluster = FreshCluster
    /\ ret = NULL
    /\ calls = <<>>
    /\ splits = <<>>
    /\ hist = <<>>
    /\ rtIn = [rt |-> <<>>, subnetID |-> ""]
    /\ rtOut = NotCalled
    /\ subnetsOut = NotDiscovered
    /\ zoSets = NewZonesCAPI
    /\ zoOp = NoOp
    /\ ec2 = NoEC2
    /\ eipOut = NotReconciled

\* One call of subnets for the ids of the install config.
Subnets ==
    /\ subnetsOut = NotDiscovered
    /\ subnetsOut' = subnets(cloud, in.InstallConfig.Config.AWS.Subnets)
    /\ UNCHANGED <<in, cloud, cluster, ret, calls, splits, hist, rtIn, rtOut, zoSets, zoOp, ec2, eipOut>>

NextDiscovery == Subnets

SpecDiscovery == InitDiscovery /\ [][NextDiscovery]_vars

(***************************************************************************)
(* zonesCAPI as a state machine                                            *)
(***************************************************************************)
PoolNames ==
    {MachinePoolControlPlaneRoleName, MachinePoolComputeRoleName, MachinePoolEdgeRoleName}

\* Zone lists as the install config writes them, sorted or not.
ZoneLists == {<<>>, <<"b">>, <<"a", "b">>, <<"x", "a">>, <<"b", "c", "b">>}
EdgeZoneLists == {<<"edge-a">>, <<"edge-y", "edge-x">>, <<"a">>}

InitZones ==
    /\ zoSets = NewZonesCAPI
    /\ zoOp = NoOp
    /\ ec2 = NoEC2
    /\ eipOut = NotReconciled
    /\ in = NIL
    /\ cloud = NIL
    /\ cluster = NIL
    /\ ret = NULL
    /\ calls = <<>>
    /\ splits = <<>>
    /\ hist = <<>>
    /\ rtIn = [rt |-> <<>>, subnetID |-> ""]
    /\ rtOut = NotCalled
    /\ subnetsOut = NotDiscovered

Others == <<in, cloud, cluster, ret, calls, splits, hist, rtIn, rtOut, subnetsOut,
            ec2, eipOut>>

ZoSetAvailabilityZones ==
    /\ \E pool \in PoolNames, zones \in ZoneLists :
          /\ zoSets' = SetAvailabilityZones(zoSets, pool, zones)
          /\ zoOp' = [fn |-> "SetAvailabilityZones", pool |-> pool, zones |-> zones]
    /\ UNCHANGED Others

ZoSetDefaultConfigZones ==
    /\ \E pool \in PoolNames, defConfig \in ZoneLists, defRegion \in ZonesInRegionChoices :
          /\ zoSets' = SetDefaultConfigZones(zoSets, pool, defConfig, defRegion)
          /\ zoOp' = [fn |-> "SetDefaultConfigZones", pool |-> pool,
                      defConfig |-> defConfig, defRegion |-> defRegion]
    /\ UNCHANGED Others

\* The edge pool's zones go into the edge set (zones.go:341).
ZoInsertEdgeZones ==
    /\ \E zones \in EdgeZoneLists :
          /\ zoSets' = [zoSets EXCEPT !.edgeZones = @ \cup Range(zones)]
          /\ zoOp' = [fn |-> "edgeZones.Insert", zones |-> zones]
    /\ UNCHANGED Others

NextZones == ZoSetAvailabilityZones \/ ZoSetDefaultConfigZones \/ ZoInsertEdgeZones

SpecZones == InitZones /\ [][NextZones]_vars

(***************************************************************************)
(* Elastic IP reconciliation as a state machine                            *)
(*   ec2 is the machine's pool configuration, its instance and the         *)
(*   addresses EC2 holds; the machine controller calls ReconcileElasticIP  *)
(*   again and again while the instance changes state.                     *)
(***************************************************************************)
MaxAddresses == 2

\* nil, a pool without an identifier, and a pool with either fallback order.
ElasticIPPools ==
    {NIL,
     [PublicIpv4Pool |-> NULL, PublicIpv4PoolFallBackOrder |-> NULL],
     [PublicIpv4Pool |-> "ipv4pool-ec2-1",
      PublicIpv4PoolFallBackOrder |-> PublicIpv4PoolFallbackOrderNone],
     [PublicIpv4Pool |-> "ipv4pool-ec2-1",
      PublicIpv4PoolFallBackOrder |-> PublicIpv4PoolFallbackOrderAmazonPool]}

\* The addresses the user brought before the instance existed: tagged for
\* machines or for the load balancer; free, held by a network interface, or
\* associated with another instance.  Addresses of the instance's own role
\* are only ever made by allocateAddress.
BroughtRoles == {eipRoleCustomEC2, "lb-apiserver"}
BroughtAssociations ==
    {[AssociationId |-> NULL, InstanceId |-> NULL],
     [AssociationId |-> "eipassoc-eni", InstanceId |-> NULL],
     [AssociationId |-> "eipassoc-i-2", InstanceId |-> "i-2"]}

BroughtAddresses(n, roleOf, assocOf) ==
    [i \in 1..n |-> Address("eipalloc-" \o ToString(i), roleOf[i],
                            assocOf[i].AssociationId, assocOf[i].InstanceId)]

ApiAnswers ==
    [getAddresses : BOOLEAN, describeAddresses : BOOLEAN,
     poolHasFree : {"yes", "no", "error"}, allocate : BOOLEAN, associate : BOOLEAN]

InitEIP ==
    /\ \E pool \in ElasticIPPools,
          state \in {InstanceStatePending, InstanceStateRunning},
          n \in 0..MaxAddresses :
          \E roleOf \in [1..n -> BroughtRoles], assocOf \in [1..n -> BroughtAssociations] :
             ec2 = [pool |-> pool,
                    instance |-> [ID |-> "i-1", State |-> state],
                    addresses |-> BroughtAddresses(n, roleOf, assocOf)]
    /\ eipOut = NotReconciled
    /\ in = NIL
    /\ cloud = NIL
    /\ cluster = NIL
    /\ ret = NULL
    /\ calls = <<>>
    /\ splits = <<>>
    /\ hist = <<>>
    /\ rtIn = [rt |-> <<>>, subnetID |-> ""]
    /\ rtOut = NotCalled
    /\ subnetsOut = NotDiscovered
    /\ zoSets = NewZonesCAPI
    /\ zoOp = NoOp

NotEIP == <<in, cloud, cluster, ret, calls, splits, hist, rtIn, rtOut, subnetsOut,
            zoSets, zoOp>>

\* One reconciliation of the machine, EC2 answering api.
ReconcileElasticIPWith(api) ==
    LET r == ReconcileElasticIP(ec2.addresses, ec2.pool, ec2.instance, api)
    IN  /\ ec2' = [ec2 EXCEPT !.addresses = r.addresses]
        /\ eipOut' = [fn |-> "ReconcileElasticIP",
                      pool |-> ec2.pool,
                      instance |-> ec2.instance,
                      before |-> ec2.addresses,
                      requeue |-> r.requeue,
                      err |-> r.err,
                      made |-> r.made]
        /\ UNCHANGED NotEIP

ReconcileElasticIPCall == \E api \in ApiAnswers : ReconcileElasticIPWith(api)

\* A reconciliation during which every EC2 request succeeds.
SucceedingAnswers ==
    {api \in ApiAnswers :
        /\ api.getAddresses
        /\ api.describeAddresses
        /\ api.poolHasFree = "yes"
        /\ api.allocate
        /\ api.associate}

ReconcileElasticIPAnswered == \E api \in SucceedingAnswers : ReconcileElasticIPWith(api)

\* The instance starts, is stopped, or is started again.
InstanceStateChange ==
    /\ ec2' = [ec2 EXCEPT !.instance.State =
                  CASE @ = InstanceStatePending -> InstanceStateRunning
                    [] @ = InstanceStateRunning -> InstanceStateStopped
                    [] OTHER -> InstanceStatePending]
    /\ UNCHANGED eipOut
    /\ UNCHANGED NotEIP

NextEIP == ReconcileElasticIPCall \/ InstanceStateChange

SpecEIP == InitEIP /\ [][NextEIP]_vars

\* Repeated reconciliation with EC2 answering: the controller calls
\* ReconcileElasticIP when the machine is created, requeues it after an error
\* or requeue=true and calls it again when the instance changes state, so a
\* call that EC2 answers and that still changes something is eventually made.
SpecEIPFair == SpecEIP /\ WF_vars(ReconcileElasticIPAnswered)

(***************************************************************************)
(* Properties                                                              *)
(***************************************************************************)
Calls == 1..Len(hist)

\* The install configuration asks for a managed VPC / for existing subnets.
ConfigPresent == in # NIL /\ in.InstallConfig # NIL /\ in.InstallConfig.Config # NIL
                 /\ in.InstallConfig.Config.AWS # NIL
ManagedMode == ConfigPresent /\ in.InstallConfig.Config.AWS.Subnets = <<>>
BYOMode == ConfigPresent /\ in.InstallConfig.Config.AWS.Subnets # <<>>

\* The records call k appended to the descriptor it was given.
Produced(k) ==
    SubSeq(hist[k].after.Subnets, Len(hist[k].before.Subnets) + 1,
           Len(hist[k].after.Subnets))

\* First and last address of the range a CIDR string denotes.
FirstAddress(c) == U32(c.ip)
LastAddress(c) ==
    LET hostBits == 32 - c.bits
        span == IF hostBits >= 16 THEN <<2^(hostBits - 16) - 1, Half - 1>>
                ELSE <<0, 2^hostBits - 1>>
    IN  <<FirstAddress(c)[1] + span[1], FirstAddress(c)[2] + span[2]>>

\* The address range of a CIDR string, as <<first, last>>.
AddressRange(c) == <<FirstAddress(c), LastAddress(c)>>

Overlap(r, q) == Leq32(r[1], q[2]) /\ Leq32(q[1], r[2])

StrictSubRange(r, base) ==
    Leq32(base[1], r[1]) /\ Leq32(r[2], base[2]) /\ r # base

ManagedErrors ==
    {"unable to generate CIDR blocks for all private subnets",
     "unable to generate CIDR blocks for all public subnets",
     "unable to generate CIDR blocks for all edge subnets",
     "unable to define CIDR blocks to all zones for private subnets",
     "unable to define CIDR blocks to all zones for public subnets",
     "unable to define CIDR blocks to all edge zones for private subnets",
     "unable to define CIDR blocks to all edge zones for public subnets"}

\* C1: whenever setSubnetsManagedVPC succeeds, the CIDRs of the subnets it
\* produced are pairwise non-overlapping and each is a strict sub-range of
\* the machine-network CIDR it wrote to the VPC descriptor.
C1_ManagedSubnetsDisjointWithinBase ==
    \A k \in Calls :
        (ManagedMode /\ hist[k].ret = "ok") =>
            LET produced == Produced(k)
                base == hist[k].after.VPC.CidrBlock
                range == [i \in 1..Len(produced) |-> AddressRange(produced[i].CidrBlock)]
                baseRange == AddressRange(base)
            IN  /\ base = in.InstallConfig.Config.MachineNetwork[1]
                /\ \A i \in 1..Len(produced) :
                      /\ StrictSubRange(range[i], baseRange)
                      /\ \A j \in (i + 1)..Len(produced) :
                            ~Overlap(range[i], range[j])

\* C1 witness: a successful managed plan with public subnets, two regular
\* zones or more and edge zones.
C1_Witness ==
    \E k \in Calls :
        /\ ManagedMode /\ hist[k].ret = "ok"
        /\ in.InstallConfig.Config.Publish = ExternalPublishingStrategy
        /\ \E i \in 1..Len(Produced(k)) : Produced(k)[i].AvailabilityZone = "edge-a"
        /\ Len(Produced(k)) >= 6

\* The subnet records of a list with their multiplicities.
Count(list, x) == Cardinality({i \in 1..Len(list) : list[i] = x})
SameRecords(s, t) ==
    \A x \in Range(s) \cup Range(t) : Count(s, x) = Count(t, x)

OnFresh(k) == hist[k].before = FreshCluster

\* C2 as stated: two calls with identical inputs, each on a fresh descriptor,
\* yield identical output, the order of the subnet list included, in managed
\* and in BYO mode.
C2_Original ==
    \A i, j \in Calls :
        (OnFresh(i) /\ OnFresh(j)) =>
            /\ hist[i].ret = hist[j].ret
            /\ hist[i].after = hist[j].after

\* C2 amended: two calls with identical inputs, each on a fresh descriptor,
\* return the same, write the same VPC descriptor and the same subnet records
\* with the same multiplicities; in managed mode the lists are also in the
\* same order.
C2_SameRecordsAndManagedOrder ==
    \A i, j \in Calls :
        (OnFresh(i) /\ OnFresh(j)) =>
            /\ hist[i].ret = hist[j].ret
            /\ hist[i].after = NIL <=> hist[j].after = NIL
            /\ hist[i].after # NIL =>
                  /\ hist[i].after.VPC = hist[j].after.VPC
                  /\ SameRecords(hist[i].after.Subnets, hist[j].after.Subnets)
                  /\ ManagedMode => hist[i].after.Subnets = hist[j].after.Subnets

\* C2 witness: two successful BYO plans on fresh descriptors whose lists hold
\* the same two subnets in different orders.
C2_Witness ==
    \E i, j \in Calls :
        /\ i # j /\ OnFresh(i) /\ OnFresh(j) /\ BYOMode
        /\ hist[i].ret = "ok" /\ hist[j].ret = "ok"
        /\ Len(hist[i].after.Subnets) = 2
        /\ hist[i].after.Subnets # hist[j].after.Subnets

\* C3 as stated: whenever setSubnetsManagedVPC returns an error, the
\* descriptor is exactly as it was before the call.
C3_NoPartialPlanOnError ==
    \A k \in Calls :
        (ManagedMode /\ hist[k].ret \in ManagedErrors) => hist[k].after = hist[k].before

\* isSubnetPublic has been called.
RouteCalled == rtOut # NotCalled

\* The tables of the call that carry an association with the subnet, and
\* those that carry a main association.
ExplicitTables ==
    {i \in 1..Len(rtIn.rt) :
        \E a \in Range(rtIn.rt[i].Associations) : a.SubnetId = rtIn.subnetID}
MainTables ==
    {i \in 1..Len(rtIn.rt) :
        \E a \in Range(rtIn.rt[i].Associations) : a.Main = "true"}

\* Targets that are no internet gateway: the local route, a NAT gateway (no
\* gateway identifier), a virtual-private gateway, a VPC peering.
NonInternetRoutes == {LocalRoute, NatGatewayRoute, VirtualGatewayRoute, PeeringRoute}

\* C4: isSubnetPublic returns true if and only if the route table resolved
\* for the subnet holds a route to an internet gateway (gateway identifier
\* starting with "igw"); local, NAT, virtual-gateway and peering routes never
\* make the subnet public.
C4_PublicIffInternetGatewayRoute ==
    RouteCalled =>
        LET t == ResolveRouteTable(rtIn.rt, rtIn.subnetID)
        IN  /\ rtOut.public <=>
                  (t # 0 /\ InternetGatewayRoute \in Range(rtIn.rt[t].Routes))
            /\ (t # 0 /\ Range(rtIn.rt[t].Routes) \subseteq NonInternetRoutes)
                  => ~rtOut.public

\* C4 witness: a subnet found public through a table that also routes to a
\* virtual gateway and a peering, and the call has returned.
C4_Witness ==
    /\ RouteCalled /\ rtOut.public
    /\ \E i \in ExplicitTables :
          {VirtualGatewayRoute, PeeringRoute, InternetGatewayRoute}
              \subseteq Range(rtIn.rt[i].Routes)

\* C5: the table consulted is one explicitly associated with the subnet, and
\* a table with a main association is consulted only when no table is
\* explicitly associated: with an explicit association the result is that of
\* an explicitly associated table whatever the main table says, without one
\* it is that of a main table.
C5_ExplicitAssociationBeforeMain ==
    RouteCalled =>
        /\ ExplicitTables # {} =>
              /\ rtOut.err = NULL
              /\ \E i \in ExplicitTables :
                    rtOut.public <=> (InternetGatewayRoute \in Range(rtIn.rt[i].Routes))
        /\ (ExplicitTables = {} /\ MainTables # {}) =>
              /\ rtOut.err = NULL
              /\ \E i \in MainTables :
                    rtOut.public <=> (InternetGatewayRoute \in Range(rtIn.rt[i].Routes))

\* C5 witness: the subnet's own table has no internet-gateway route, the main
\* table has one, and the subnet was found private.
C5_Witness ==
    /\ RouteCalled /\ ~rtOut.public /\ rtOut.err = NULL
    /\ ExplicitTables # {}
    /\ \E i \in MainTables \ ExplicitTables :
          InternetGatewayRoute \in Range(rtIn.rt[i].Routes)

\* The subnet identifiers the install configuration lists, and what their
\* discovery answers in the current state.
ListedSubnets == in.InstallConfig.Config.AWS.Subnets
Discovery == subnets(cloud, ListedSubnets)
NoRouteTableError == "could not locate routing table"
SameVPCError == "all subnets must belong to the same VPC"
GatherFailed == "failed to get subnets from metadata"

\* No table of the VPC is associated with the subnet and none is the main one.
NoRouteTableFor(id) ==
    \A t \in Range(cloud.routeTables) :
        \A a \in Range(t.Associations) : a.SubnetId # id /\ a.Main # "true"

ClassifiedSubnets(found) ==
    DOMAIN found.groups.Public \cup DOMAIN found.groups.Private
        \cup DOMAIN found.groups.Edge

\* C6: isSubnetPublic fails if and only if the subnet has neither an
\* explicitly associated nor a main route table; subnets() then returns that
\* error at the first such subnet, leaving it and the subnets listed after it
\* unclassified, and the planner returns an error with the descriptor as it
\* was.
C6_NoRouteTableIsFatal ==
    (BYOMode /\ Len(hist) > 0) =>
        /\ \A id \in Range(ListedSubnets) :
              (isSubnetPublic(cloud.routeTables, id).err # NULL) <=> NoRouteTableFor(id)
        /\ Discovery.err = NoRouteTableError =>
              /\ \E k \in 1..Len(ListedSubnets) :
                    /\ NoRouteTableFor(ListedSubnets[k])
                    /\ \A j \in 1..(k - 1) : ~NoRouteTableFor(ListedSubnets[j])
                    /\ ClassifiedSubnets(Discovery)
                          = {ListedSubnets[j] : j \in 1..(k - 1)}
              /\ \A k \in Calls :
                    hist[k].ret = GatherFailed /\ hist[k].after = hist[k].before

\* C6 witness: the second listed subnet has no route table, the first was
\* classified, and the planner has returned.
C6_Witness ==
    /\ BYOMode /\ Len(hist) > 0
    /\ Discovery.err = NoRouteTableError
    /\ Len(ListedSubnets) = 2
    /\ NoRouteTableFor(ListedSubnets[2])
    /\ ClassifiedSubnets(Discovery) = {ListedSubnets[1]}

\* The subnets handed to setSubnetsBYOVPC, group by group.
BYOInputSubnets ==
    {in.Subnets.privateSubnets[id] : id \in DOMAIN in.Subnets.privateSubnets}
    \cup {in.Subnets.publicSubnets[id] : id \in DOMAIN in.Subnets.publicSubnets}
    \cup {in.Subnets.edgeSubnets[id] : id \in DOMAIN in.Subnets.edgeSubnets}

BYOInputCount ==
    Cardinality(DOMAIN in.Subnets.privateSubnets)
    + Cardinality(DOMAIN in.Subnets.publicSubnets)
    + Cardinality(DOMAIN in.Subnets.edgeSubnets)

\* C7: setSubnetsBYOVPC emits exactly one record per subnet of the private,
\* public and edge groups, with the input's ID, CIDR, zone name and public
\* flag, and sets the VPC descriptor to the existing VPC with no CIDR block.
C7_BYOCopiesSubnetsVerbatim ==
    \A k \in Calls :
        (BYOMode /\ hist[k].ret = "ok") =>
            /\ Len(Produced(k)) = BYOInputCount
            /\ \A subnet \in BYOInputSubnets :
                  Cardinality({i \in 1..Len(Produced(k)) :
                      /\ Produced(k)[i].ID = subnet.ID
                      /\ Produced(k)[i].CidrBlock = subnet.CIDR
                      /\ Produced(k)[i].AvailabilityZone = subnet.Zone.Name
                      /\ Produced(k)[i].IsPublic = subnet.Public}) = 1
            /\ hist[k].after.VPC = [ID |-> in.Subnets.vpc, CidrBlock |-> EmptyCidr]
            /\ "SplitIntoSubnetsIPv4" \notin Range(calls)

\* C7 witness: a BYO plan over a private subnet and an edge subnet.
C7_Witness ==
    \E k \in Calls :
        /\ BYOMode /\ hist[k].ret = "ok"
        /\ DOMAIN in.Subnets.privateSubnets # {}
        /\ DOMAIN in.Subnets.edgeSubnets # {}
        /\ Len(Produced(k)) = 2

\* A described subnet carries an identifier / every field discovery needs.
HasId(subnet) == subnet.SubnetId # NULL
Complete(subnet) ==
    subnet.SubnetArn # NULL /\ subnet.VpcId # NULL /\ subnet.AvailabilityZone # NULL

\* C8 as stated: discovery fails with the same-VPC error if and only if some
\* described subnet has a VPC identifier different from that of the first
\* described subnet; the planner then returns an error and writes nothing.
C8_Original ==
    (BYOMode /\ Len(hist) > 0) =>
        LET described == cloud.describedSubnets
        IN  /\ Discovery.err = SameVPCError <=>
                  \E k \in 2..Len(described) :
                      /\ described[k].VpcId # NULL /\ described[1].VpcId # NULL
                      /\ described[k].VpcId # described[1].VpcId
            /\ Discovery.err = SameVPCError =>
                  \A k \in Calls :
                      hist[k].ret = GatherFailed /\ hist[k].after = hist[k].before

\* C8 amended: discovery fails with the same-VPC error if and only if some
\* described subnet that carries an identifier, an ARN, a VPC and a zone has
\* a VPC identifier different from that of an earlier described subnet with
\* an identifier, and every subnet with an identifier described before it
\* carries an ARN, a VPC and a zone (subnets without an identifier are
\* skipped, a subnet lacking a field fails discovery with another error);
\* the planner then returns an error and writes nothing.
C8_SameVPCAmongExaminedSubnets ==
    (BYOMode /\ Len(hist) > 0) =>
        LET described == cloud.describedSubnets
        IN  /\ Discovery.err = SameVPCError <=>
                  \E k \in 1..Len(described) :
                      /\ HasId(described[k]) /\ Complete(described[k])
                      /\ \A j \in 1..(k - 1) :
                            HasId(described[j]) => Complete(described[j])
                      /\ \E j \in 1..(k - 1) :
                            /\ HasId(described[j])
                            /\ described[j].VpcId # described[k].VpcId
            /\ Discovery.err = SameVPCError =>
                  \A k \in Calls :
                      hist[k].ret = GatherFailed /\ hist[k].after = hist[k].before

\* C8 witness: two complete subnets of two VPCs were described and the
\* planner has returned its error.
C8_Witness ==
    /\ BYOMode /\ Len(hist) > 0
    /\ Discovery.err = SameVPCError
    /\ ret = GatherFailed
    /\ Len(cloud.describedSubnets) = 2

GuardErrors ==
    {"failed to get installConfig", "failed to get AWS metadata",
     "unable to get Config", "failed to get AWSCluster config", "panic"}

SubnetCalls == {"PrivateSubnets", "PublicSubnets", "EdgeSubnets", "VPC"}

\* C9: setSubnets takes the BYO path if and only if the install configuration
\* lists a subnet identifier, else the managed path; the BYO path never asks
\* for the region's zones and never splits a CIDR, the managed path never
\* asks for existing subnets or the VPC.
C9_ExactlyOnePath ==
    (ConfigPresent /\ Len(hist) > 0 /\ calls # <<>>) =>
        /\ calls[1] = "PrivateSubnets" <=> Len(ListedSubnets) > 0
        /\ calls[1] = "AvailabilityZones" <=> Len(ListedSubnets) = 0
        /\ calls[1] = "PrivateSubnets" =>
              Range(calls) \cap {"AvailabilityZones", "SplitIntoSubnetsIPv4"} = {}
        /\ calls[1] = "AvailabilityZones" => Range(calls) \cap SubnetCalls = {}

\* C9 witness: a BYO plan was written after the four subnet calls.
C9_Witness ==
    /\ ConfigPresent /\ Len(ListedSubnets) > 0 /\ ret = "ok"
    /\ calls = <<"PrivateSubnets", "PublicSubnets", "EdgeSubnets", "VPC">>
    /\ Len(cluster.Subnets) > 0

\* The zones a role lists in the install configuration.
ListedControlPlaneZones ==
    LET cp == in.InstallConfig.Config.ControlPlane
    IN  IF cp # NIL /\ cp.AWS # NIL THEN Range(cp.AWS.Zones) ELSE {}
ListedComputeZones ==
    LET compute == in.InstallConfig.Config.Compute
    IN  UNION {Range(compute[i].AWS.Zones) :
                  i \in {j \in 1..Len(compute) :
                           /\ compute[j].Name = MachinePoolComputeRoleName
                           /\ compute[j].AWS # NIL}}
PlatformDefaultZones ==
    LET dmp == in.InstallConfig.Config.AWS.DefaultMachinePlatform
    IN  IF dmp # NIL THEN Range(dmp.Zones) ELSE {}

\* Precedence: the listed zones, else the platform default, else the region.
EffectiveZones(listed) ==
    IF listed # {} THEN listed
    ELSE IF PlatformDefaultZones # {} THEN PlatformDefaultZones
    ELSE Range(in.ZonesInRegion)

\* C10 as stated: after extractZonesFromInstallConfig each of the roles
\* control plane and compute holds the zones its pool lists, else the
\* platform default zones, else the zones of the region, for every install
\* configuration.
C10_EffectiveZonesPerRole ==
    (ManagedMode /\ Len(hist) > 0 /\ ret = "ok") =>
        LET out == extractZonesFromInstallConfig(in)
        IN  /\ out.controlPlaneZones = EffectiveZones(ListedControlPlaneZones)
            /\ out.computeZones = EffectiveZones(ListedComputeZones)

\* The zone sets the managed planner works from in the current state.
ExtractedZones == extractZonesFromInstallConfig(in)

RegularZones == ExtractedZones.controlPlaneZones \cup ExtractedZones.computeZones
\* setSubnetsManagedVPC has run, on an input with a cluster identity.
ManagedCalled ==
    /\ ManagedMode /\ Len(hist) > 0 /\ calls # <<>> /\ in.ClusterID # NIL
    /\ cloud.zonesErr = NULL

ListedEdgeZones ==
    LET compute == in.InstallConfig.Config.Compute
    IN  UNION {Range(compute[i].AWS.Zones) :
                  i \in {j \in 1..Len(compute) :
                           /\ compute[j].Name = MachinePoolEdgeRoleName
                           /\ compute[j].AWS # NIL}}

\* C11: after zone extraction the edge zone set is disjoint from the
\* control-plane and compute zone sets, and a configuration naming one zone
\* in the edge pool and in a control-plane or compute pool makes the planner
\* return an error instead of emitting subnets for that zone twice.
C11_EdgeAndRegularZonesDisjoint ==
    ManagedCalled =>
        /\ ExtractedZones.edgeZones \cap RegularZones = {}
        /\ ListedEdgeZones \cap (ListedControlPlaneZones \cup ListedComputeZones) # {}
              => ret \notin {"ok", "panic"}

\* The records the last call appended, and those of them for zone z with
\* the given visibility.
LastProduced == Produced(Len(hist))
SubnetsOf(z, public) ==
    {i \in 1..Len(LastProduced) :
        LastProduced[i].AvailabilityZone = z /\ LastProduced[i].IsPublic = public}
IsExternal == in.InstallConfig.Config.Publish = ExternalPublishingStrategy

\* C12: in every successful managed plan each regular zone and each edge
\* zone has exactly one private subnet, exactly one public subnet when the
\* publish strategy is External and none when it is Internal, and no subnet
\* is produced for any other zone.
C12_OneSubnetPerZoneAndVisibility ==
    (ManagedCalled /\ ret = "ok") =>
        /\ \A z \in RegularZones \cup ExtractedZones.edgeZones :
              /\ Cardinality(SubnetsOf(z, FALSE)) = 1
              /\ Cardinality(SubnetsOf(z, TRUE)) = (IF IsExternal THEN 1 ELSE 0)
        /\ \A i \in 1..Len(LastProduced) :
              LastProduced[i].AvailabilityZone
                  \in RegularZones \cup ExtractedZones.edgeZones

\* A block of the given prefix length holds fewer than n sub-blocks.
TooSmall(request) == request.n > 2^(32 - request.cidr.bits)

\* The stages of the managed plan in the order of their split calls.
StageError(k) ==
    IF k = 1 THEN "unable to generate CIDR blocks for all private subnets"
    ELSE IF k = 2 /\ IsExternal
    THEN "unable to generate CIDR blocks for all public subnets"
    ELSE "unable to generate CIDR blocks for all edge subnets"

StagesRequired ==
    1 + (IF IsExternal THEN 1 ELSE 0)
      + (IF ExtractedZones.edgeZones # {} THEN 1 ELSE 0)

\* C13: setSubnetsManagedVPC fails whenever the block of one of its three
\* splits (base, public super-block, edge super-block) is too small for the
\* blocks asked of it; the error names the first such stage and no later
\* split is attempted; otherwise every required stage runs and the plan
\* succeeds.
C13_SplitFailureNamesItsStage ==
    ManagedCalled =>
        LET failing == {k \in 1..Len(splits) : TooSmall(splits[k])}
        IN  /\ failing # {} => failing = {Len(splits)} /\ ret = StageError(Len(splits))
            /\ failing = {} => ret = "ok" /\ Len(splits) = StagesRequired
            /\ Len(splits) >= 1
            /\ splits[1].cidr = in.InstallConfig.Config.MachineNetwork[1]

\* C13 witness: the base and the public split succeeded and the edge split
\* failed.
C13_Witness ==
    /\ ManagedCalled /\ IsExternal /\ RegularZones # {}
    /\ Len(splits) = 3 /\ TooSmall(splits[3])
    /\ ret = "unable to generate CIDR blocks for all edge subnets"

\* A fact the planner needs is absent from the input of call k: the install
\* config, its AWS metadata, its Config, the network descriptor, the cluster
\* identity or the machine network.
FactAbsent(k) ==
    \/ hist[k].before = NIL
    \/ in.ClusterID = NIL
    \/ IF in.InstallConfig = NIL THEN TRUE
       ELSE IF in.InstallConfig.AWS = NULL THEN TRUE
       ELSE IF in.InstallConfig.Config = NIL THEN TRUE
       ELSE IF in.InstallConfig.Config.AWS = NIL THEN FALSE
       ELSE in.InstallConfig.Config.MachineNetwork = <<>>

\* C14: whenever a required upstream fact is absent the planner returns an
\* error, without panicking, without calling the metadata collaborator and
\* without writing to the descriptor.
C14_MissingFactIsAnError ==
    \A k \in Calls :
        FactAbsent(k) =>
            /\ hist[k].ret \notin {"ok", "panic"}
            /\ hist[k].after = hist[k].before
            /\ calls = <<>>

\* What a plan says of each subnet, identifiers aside.
PlanOf(records) ==
    {<<records[i].AvailabilityZone, records[i].CidrBlock, records[i].IsPublic>> :
        i \in 1..Len(records)}

\* Base CIDR 10.0.0.0/16, region zones a, b, c, External publish, no
\* control-plane pool, no platform default and the given compute pools.
Scenario(compute) ==
    /\ ManagedCalled
    /\ hist[Len(hist)].before = FreshCluster
    /\ in.InstallConfig.Config.MachineNetwork = <<Cidr(10, 0, 0, 0, 16)>>
    /\ in.ZonesInRegion = <<"a", "b", "c">>
    /\ IsExternal
    /\ in.InstallConfig.Config.ControlPlane = NIL
    /\ in.InstallConfig.Config.AWS.DefaultMachinePlatform = NIL
    /\ in.InstallConfig.Config.Compute = compute

ScenarioAPlan ==
    {<<"a", Cidr(10, 0, 0, 0, 19), FALSE>>, <<"b", Cidr(10, 0, 32, 0, 19), FALSE>>,
     <<"c", Cidr(10, 0, 64, 0, 19), FALSE>>, <<"a", Cidr(10, 0, 96, 0, 21), TRUE>>,
     <<"b", Cidr(10, 0, 104, 0, 21), TRUE>>, <<"c", Cidr(10, 0, 112, 0, 21), TRUE>>}

ScenarioBPlan ==
    ScenarioAPlan \cup {<<"edge-a", Cidr(10, 0, 128, 0, 21), FALSE>>,
                        <<"edge-a", Cidr(10, 0, 136, 0, 21), TRUE>>}

EdgePoolA == <<MachinePool(MachinePoolEdgeRoleName, AWSPool(<<"edge-a">>))>>

\* C15: for 10.0.0.0/16, zones a, b, c, External publish and no pools the
\* managed plan is exactly private a/b/c = 10.0.0.0/19, 10.0.32.0/19,
\* 10.0.64.0/19 and public a/b/c = 10.0.96.0/21, 10.0.104.0/21,
\* 10.0.112.0/21; with the edge zone edge-a added it is those six plus
\* private edge-a = 10.0.128.0/21 and public edge-a = 10.0.136.0/21; the VPC
\* descriptor carries 10.0.0.0/16.
C15_ScenarioPlans ==
    /\ Scenario(<<>>) =>
          /\ ret = "ok"
          /\ Len(cluster.Subnets) = 6 /\ PlanOf(cluster.Subnets) = ScenarioAPlan
          /\ cluster.VPC.CidrBlock = Cidr(10, 0, 0, 0, 16)
    /\ Scenario(EdgePoolA) =>
          /\ ret = "ok"
          /\ Len(cluster.Subnets) = 8 /\ PlanOf(cluster.Subnets) = ScenarioBPlan
          /\ cluster.VPC.CidrBlock = Cidr(10, 0, 0, 0, 16)

\* C15 witness: the plan with the edge zone has been written.
C15_Witness == Scenario(EdgePoolA) /\ Len(cluster.Subnets) = 8

\* The blocks the first split was asked for, in address order, as CIDR
\* strings.
RequestedBlocks ==
    LET base == SplitIntoSubnetsIPv4(splits[1].cidr, splits[1].n)
    IN  [i \in 1..Len(base.nets) |-> String(base.nets[i])]

HasEdgeZones == ExtractedZones.edgeZones # {}

\* The blocks handed to the public and to the edge split.
PublicSuperBlock == splits[2].cidr
EdgeSuperBlock == splits[StagesRequired].cidr

\* Requested block i is a zone's private subnet, the public super-block or
\* the edge super-block.
ConsumedBlock(block, produced) ==
    \/ \E j \in 1..Len(produced) :
          ~produced[j].IsPublic /\ produced[j].CidrBlock = block
    \/ IsExternal /\ block = PublicSuperBlock
    \/ HasEdgeZones /\ block = EdgeSuperBlock

\* C16: the first split asks for |regularZones| + 1 blocks, one more under
\* External publish and one more when there is an edge zone; in every
\* successful plan exactly one of the blocks asked for is neither a private
\* subnet nor the public nor the edge super-block.
C16_OneBlockReserved ==
    ManagedCalled =>
        /\ splits[1].n = Cardinality(RegularZones) + 1
                           + (IF IsExternal THEN 1 ELSE 0)
                           + (IF HasEdgeZones THEN 1 ELSE 0)
        /\ ret = "ok" =>
              LET blocks == RequestedBlocks
                  produced == LastProduced
              IN  Cardinality({i \in 1..Len(blocks) :
                                  ~ConsumedBlock(blocks[i], produced)}) = 1

\* C16 witness: a successful External plan over two regular zones or more
\* and an edge zone.
C16_Witness ==
    /\ ManagedCalled /\ ret = "ok" /\ IsExternal /\ HasEdgeZones
    /\ Cardinality(RegularZones) >= 2
    /\ Len(RequestedBlocks) = Cardinality(RegularZones) + 3

\* Position of zone z in the sorted list of the zones Z.
Position(z, Z) == 1 + Cardinality({y \in Z : StrLess(y, z)})

\* The blocks of the public super-block split into one block per regular
\* zone.
PublicBlocks ==
    LET public == SplitIntoSubnetsIPv4(PublicSuperBlock, Cardinality(RegularZones))
    IN  [i \in 1..Len(public.nets) |-> String(public.nets[i])]

\* Records a zone loop writes per zone.
Stride == IF IsExternal THEN 2 ELSE 1

\* C17: for the regular zone at position i of the sorted regular zone list
\* the private subnet is block i of the base split and, when public subnets
\* are required, the public subnet is block i of the public super-block
\* split into |regularZones| blocks; both records carry that zone.
C17_RegularZoneIndexAlignment ==
    (ManagedCalled /\ ret = "ok") =>
        LET zones == RegularZones
            produced == LastProduced
            privateBlocks == RequestedBlocks
            publicBlocks == PublicBlocks
        IN  \A z \in zones :
                LET i == Position(z, zones)
                    private == produced[(i - 1) * Stride + 1]
                IN  /\ private.AvailabilityZone = z
                    /\ ~private.IsPublic
                    /\ private.CidrBlock = privateBlocks[i]
                    /\ IsExternal =>
                          LET public == produced[(i - 1) * Stride + 2]
                          IN  /\ public.AvailabilityZone = z
                              /\ public.IsPublic
                              /\ public.CidrBlock = publicBlocks[i]

\* C17 witness: a successful External plan over three regular zones.
C17_Witness ==
    /\ ManagedCalled /\ ret = "ok" /\ IsExternal
    /\ Cardinality(RegularZones) = 3
    /\ Len(PublicBlocks) = 3
    /\ LastProduced[6].CidrBlock = PublicBlocks[3]

\* C18: in every successful managed plan the blocks of the base split that
\* are consumed (a zone's private subnet, the public super-block, the edge
\* super-block) are the lowest-indexed ones in address order and every
\* unused block trails all consumed ones, for External and Internal publish,
\* with and without edge zones.
C18_ConsumedBlocksAreLowest ==
    (ManagedCalled /\ ret = "ok") =>
        LET blocks == RequestedBlocks
            produced == LastProduced
            consumed == {i \in 1..Len(blocks) : ConsumedBlock(blocks[i], produced)}
        IN  \A j \in consumed : \A i \in (1..Len(blocks)) \ consumed : j < i

\* The blocks of the edge super-block's split, in address order.
EdgeBlocks ==
    LET edge == SplitIntoSubnetsIPv4(EdgeSuperBlock, splits[StagesRequired].n)
    IN  [i \in 1..Len(edge.nets) |-> String(edge.nets[i])]

\* The records the edge loop appended: those after the regular zones'.
EdgeProduced ==
    SubSeq(LastProduced, Cardinality(RegularZones) * Stride + 1, Len(LastProduced))

\* C19: when edge zones exist the edge super-block is split into
\* (External ? 2 : 1) * |edgeZones| + 1 blocks; the edge zone at position i
\* of the sorted edge zone list gets block i as its private subnet and, when
\* External, block |edgeZones| + i as its public subnet; at least one block
\* of the edge split stays unassigned.
C19_EdgeBlockAssignment ==
    (ManagedCalled /\ HasEdgeZones /\ Len(splits) = StagesRequired) =>
        LET edgeZones == ExtractedZones.edgeZones
            nEdge == Cardinality(edgeZones)
            blocks == EdgeBlocks
            produced == EdgeProduced
        IN  /\ splits[StagesRequired].n = Stride * nEdge + 1
            /\ ret = "ok" =>
                  /\ Len(produced) = Stride * nEdge
                  /\ \A z \in edgeZones :
                        LET i == Position(z, edgeZones)
                            private == produced[(i - 1) * Stride + 1]
                        IN  /\ private.AvailabilityZone = z
                            /\ ~private.IsPublic
                            /\ private.CidrBlock = blocks[i]
                            /\ IsExternal =>
                                  LET public == produced[(i - 1) * Stride + 2]
                                  IN  /\ public.AvailabilityZone = z
                                      /\ public.IsPublic
                                      /\ public.CidrBlock = blocks[nEdge + i]
                  /\ \E b \in 1..Len(blocks) :
                        \A j \in 1..Len(produced) :
                            produced[j].CidrBlock # blocks[b]

\* C19 witness: a successful External plan with two edge zones, whose edge
\* split has five blocks.
C19_Witness ==
    /\ ManagedCalled /\ ret = "ok" /\ IsExternal
    /\ Cardinality(ExtractedZones.edgeZones) = 2
    /\ Len(EdgeBlocks) = 5
    /\ EdgeProduced[4].CidrBlock = EdgeBlocks[4]

\* The input with the zones added to its edge pool (to a new edge pool when
\* it has none).
WithEdgeZones(zin, zones) ==
    LET compute == zin.InstallConfig.Config.Compute
        edgePools == {j \in 1..Len(compute) :
                         compute[j].Name = MachinePoolEdgeRoleName /\ compute[j].AWS # NIL}
    IN  IF edgePools = {}
        THEN [zin EXCEPT !.InstallConfig.Config.Compute =
                 Append(@, MachinePool(MachinePoolEdgeRoleName, AWSPool(zones)))]
        ELSE LET j == CHOOSE e \in edgePools : \A f \in edgePools : e <= f
             IN  [zin EXCEPT !.InstallConfig.Config.Compute[j].AWS.Zones = @ \o zones]

AddedEdgeZones == {<<"edge-c">>, <<"edge-d", "edge-c">>}

\* The plan of the current input with the zones added to the edge pool.
PlanWithEdgeZones(zones) == setSubnetsManagedVPC(WithEdgeZones(in, zones), FreshCluster)

\* The records of the regular zones in a list of produced records.
RegularPart(records) == SubSeq(records, 1, Cardinality(RegularZones) * Stride)

IsPowerOfTwo(n) == \E k \in 0..30 : n = 2^k

\* C20 as stated: adding zones to the edge pool leaves the private and the
\* public subnet of every regular zone unchanged (CIDR, zone, ID and
\* visibility), for every number of regular zones and either publish
\* strategy.
C20_Original ==
    (ManagedCalled /\ ret = "ok") =>
        \A zones \in AddedEdgeZones :
            LET with == PlanWithEdgeZones(zones)
            IN  with.ret = "ok" =>
                    RegularPart(with.cluster.Subnets) = RegularPart(LastProduced)

\* C20 amended: adding zones to the edge pool leaves zone, ID and visibility
\* of every regular zone's subnets unchanged; their CIDRs are unchanged too
\* when the edge pool already held a zone, or when the number of blocks
\* asked of the base split without an edge block (|regularZones| + 1, one
\* more under External publish) is not a power of two; when the first edge
\* zone is added and that number is a power of two, the base split doubles
\* its block count and the regular zones' private CIDRs get a prefix one bit
\* longer.
C20_RegularSubnetsUnderEdgeAddition ==
    (ManagedCalled /\ ret = "ok") =>
        \A zones \in AddedEdgeZones :
            LET with == PlanWithEdgeZones(zones)
                nRecords == Cardinality(RegularZones) * Stride
                before == SubSeq(LastProduced, 1, nRecords)
                after == SubSeq(with.cluster.Subnets, 1, nRecords)
                noEdgeBlocks == Cardinality(RegularZones) + 1
                                  + (IF IsExternal THEN 1 ELSE 0)
            IN  with.ret = "ok" =>
                  /\ Len(after) = Len(before)
                  /\ \A i \in 1..Len(before) :
                        /\ after[i].AvailabilityZone = before[i].AvailabilityZone
                        /\ after[i].ID = before[i].ID
                        /\ after[i].IsPublic = before[i].IsPublic
                  /\ (HasEdgeZones \/ ~IsPowerOfTwo(noEdgeBlocks)) => after = before
                  /\ (~HasEdgeZones /\ IsPowerOfTwo(noEdgeBlocks)) =>
                        \A i \in 1..Len(before) :
                            ~before[i].IsPublic =>
                                after[i].CidrBlock.bits = before[i].CidrBlock.bits + 1

\* C20 witness: a successful plan over two regular zones or more with an
\* edge zone, and a successful plan with two more edge zones.
C20_Witness ==
    /\ ManagedCalled /\ ret = "ok" /\ HasEdgeZones
    /\ Cardinality(RegularZones) >= 2
    /\ PlanWithEdgeZones(<<"edge-d", "edge-c">>).ret = "ok"
    /\ Len(PlanWithEdgeZones(<<"edge-d", "edge-c">>).cluster.Subnets) > Len(LastProduced)

\* subnets has returned, and returned without an error.
DiscoveryDone == subnetsOut # NotDiscovered
DiscoveryOk == DiscoveryDone /\ subnetsOut.err = NULL
RequestedIds == Range(in.InstallConfig.Config.AWS.Subnets)

\* The zone and the zone type the cloud reports for a described subnet.
ZoneOfSubnet(id) ==
    LET k == CHOOSE j \in 1..Len(cloud.describedSubnets) :
                 cloud.describedSubnets[j].SubnetId = id
    IN  cloud.describedSubnets[k].AvailabilityZone
ZoneTypeOfSubnet(id) == cloud.availabilityZones[ZoneOfSubnet(id)].ZoneType
EdgeZoneTypes == {AvailabilityZoneTypeLocal, WavelengthZoneType}

\* C21: a successful discovery places a subnet in the Edge group if and only
\* if the zone type of its zone marks a local zone or a wavelength zone;
\* every other subnet is in the Public group when its route table has an
\* internet gateway route and in the Private group otherwise.
C21_EdgeIffLocalOrWavelengthZone ==
    DiscoveryOk =>
        \A id \in RequestedIds :
            /\ id \in DOMAIN subnetsOut.groups.Edge <=> ZoneTypeOfSubnet(id) \in EdgeZoneTypes
            /\ ZoneTypeOfSubnet(id) \notin EdgeZoneTypes =>
                  IF isSubnetPublic(cloud.routeTables, id).public
                  THEN id \in DOMAIN subnetsOut.groups.Public
                  ELSE id \in DOMAIN subnetsOut.groups.Private

\* A list of strings in strictly ascending order.
Ascending(list) == \A i \in 1..Len(list) : \A j \in (i + 1)..Len(list) : StrLess(list[i], list[j])

\* C22: AvailabilityZones returns the union of the control-plane and compute
\* zone sets in ascending order without duplicates and without any zone that
\* is only in the edge set, EdgeZones the edge set in ascending order; the
\* lists are those of the sets' contents whatever the order of the
\* insertions that built them, and are empty for empty sets.
C22_ZoneListsSortedUnion ==
    LET regular == zoSets.controlPlaneZones \cup zoSets.computeZones
        az == AvailabilityZones(zoSets)
        ez == EdgeZones(zoSets)
    IN  /\ Range(az) = regular /\ Len(az) = Cardinality(regular) /\ Ascending(az)
        /\ Range(az) \cap (zoSets.edgeZones \ regular) = {}
        /\ Range(ez) = zoSets.edgeZones /\ Len(ez) = Cardinality(zoSets.edgeZones)
        /\ Ascending(ez)
        /\ regular = {} => az = <<>>
        /\ zoSets.edgeZones = {} => ez = <<>>

\* C22 witness: the sets of the "unsorted" test case, built by insertions in
\* descending order, with the lists the test expects.
C22_Witness ==
    /\ zoSets.controlPlaneZones = {"x", "a"}
    /\ zoSets.computeZones = {"b", "a"}
    /\ zoSets.edgeZones = {"edge-x", "edge-y"}
    /\ zoOp.fn = "edgeZones.Insert" /\ zoOp.zones = <<"edge-y", "edge-x">>
    /\ AvailabilityZones(zoSets) = <<"a", "b", "x">>
    /\ EdgeZones(zoSets) = <<"edge-x", "edge-y">>

\* C23: SetAvailabilityZones and SetDefaultConfigZones change the zone set
\* of the role named by the pool argument only: the edge set and the other
\* role's set keep their value, a pool name that is neither the control-plane
\* nor the compute role name changes nothing, SetDefaultConfigZones leaves a
\* role's set alone when it is not empty, and applying it a second time with
\* the same arguments changes nothing.
C23_SetZonesFrame ==
    [][LET op == zoOp'
       IN  /\ op.fn \in {"SetAvailabilityZones", "SetDefaultConfigZones"} =>
                /\ zoSets'.edgeZones = zoSets.edgeZones
                /\ op.pool # MachinePoolControlPlaneRoleName =>
                      zoSets'.controlPlaneZones = zoSets.controlPlaneZones
                /\ op.pool # MachinePoolComputeRoleName =>
                      zoSets'.computeZones = zoSets.computeZones
           /\ op.fn = "SetDefaultConfigZones" =>
                /\ zoSets.controlPlaneZones # {} =>
                      zoSets'.controlPlaneZones = zoSets.controlPlaneZones
                /\ zoSets.computeZones # {} =>
                      zoSets'.computeZones = zoSets.computeZones
                /\ SetDefaultConfigZones(zoSets', op.pool, op.defConfig, op.defRegion)
                      = zoSets']_vars

\* C23 witness: SetDefaultConfigZones has been called for the compute role
\* with a default zone that its non-empty set does not hold.
C23_Witness ==
    /\ zoOp.fn = "SetDefaultConfigZones"
    /\ zoOp.pool = MachinePoolComputeRoleName
    /\ zoOp.defConfig = <<"b">>
    /\ zoSets.computeZones = {"x", "a"}
    /\ zoSets.controlPlaneZones = {}

\* C24: every subnet record produced in managed mode has the ID
\* <infra-id>-subnet-private-<zone> when it is private and
\* <infra-id>-subnet-public-<zone> when it is public, <zone> being the
\* record's zone; the IDs of the subnets of one plan are pairwise distinct.
C24_SubnetIdsNamedAndDistinct ==
    ManagedCalled =>
        LET produced == LastProduced
            infraID == in.ClusterID.InfraID
        IN  /\ \A i \in 1..Len(produced) :
                  produced[i].ID =
                      IF produced[i].IsPublic
                      THEN PublicSubnetID(infraID, produced[i].AvailabilityZone)
                      ELSE PrivateSubnetID(infraID, produced[i].AvailabilityZone)
            /\ \A i \in 1..Len(produced) : \A j \in (i + 1)..Len(produced) :
                  produced[i].ID # produced[j].ID

MetadataCalls == SubnetCalls \cup {"AvailabilityZones"}

\* A metadata call of the current input fails.
MetadataFails ==
    \/ BYOMode /\ subnets(cloud, ListedSubnets).err # NULL
    \/ ManagedMode /\ cloud.zonesErr # NULL

\* C25: within one setSubnets call every metadata call comes before the
\* planner's first step on the descriptor and is made at most once; a
\* failing metadata call is the last call made, the call returns an error
\* and the descriptor is the one it was given.
C25_MetadataBeforeWritesOnceOnly ==
    (ConfigPresent /\ Len(hist) > 0 /\ calls # <<>>) =>
        LET last == hist[Len(hist)]
        IN  /\ \A i \in 1..Len(calls) : \A j \in (i + 1)..Len(calls) :
                  calls[j] \in MetadataCalls =>
                      calls[i] \in MetadataCalls /\ calls[i] # calls[j]
            /\ last.after # last.before =>
                  /\ ~MetadataFails
                  /\ IF BYOMode
                     THEN calls = <<"PrivateSubnets", "PublicSubnets", "EdgeSubnets", "VPC">>
                     ELSE calls[1] = "AvailabilityZones"
            /\ MetadataFails =>
                  /\ ret \notin {NULL, "ok", "panic"}
                  /\ last.after = last.before
                  /\ Cardinality({i \in 1..Len(calls) : calls[i] \in MetadataCalls}) = 1
                  /\ Len(calls) = 1

\* C25 witness: the request for the region's zones has failed in a second
\* call on the same descriptor.
C25_Witness ==
    /\ ManagedMode /\ cloud.zonesErr # NULL /\ Len(hist) = 2
    /\ calls = <<"AvailabilityZones">>
    /\ ret = "failed to get availability zones from metadata"
    /\ cluster = FreshCluster

DefineErrors ==
    {"unable to define CIDR blocks to all zones for private subnets",
     "unable to define CIDR blocks to all zones for public subnets",
     "unable to define CIDR blocks to all edge zones for private subnets",
     "unable to define CIDR blocks to all edge zones for public subnets"}

\* The greatest index (from 0, as in the source) the planner uses into the
\* result of the base split, the public split and the edge split; -1 when
\* it uses none.
MaxBaseIndex(nZones, nEdge) == IF nEdge > 0 THEN nZones + 1 ELSE nZones
MaxPublicIndex(nZones) == nZones - 1
MaxEdgeIndex(nEdge) == IF IsExternal THEN 2 * nEdge - 1 ELSE nEdge - 1

\* C26: for every number of regular zones (zero included), every number of
\* edge zones and either publish strategy, each split that succeeds returns
\* as many blocks as it was asked for and every index setSubnetsManagedVPC
\* uses into it (the public super-block at |regularZones|, the edge
\* super-block at |regularZones| + 1, the zones' private and public blocks,
\* the edge blocks at i and |edgeZones| + i) is inside the list; no index is
\* out of range and none of the length checks after the splits fails.
C26_SplitIndicesInRange ==
    ManagedCalled =>
        LET nZones == Cardinality(RegularZones)
            nEdge == Cardinality(ExtractedZones.edgeZones)
            blocks(k) == SplitIntoSubnetsIPv4(splits[k].cidr, splits[k].n)
        IN  /\ ret # "panic"
            /\ ret \notin DefineErrors
            /\ \A k \in 1..Len(splits) :
                  ~blocks(k).err => Len(blocks(k).nets) = splits[k].n
            /\ MaxBaseIndex(nZones, nEdge) < splits[1].n
            /\ (IsExternal /\ Len(splits) >= 2) => MaxPublicIndex(nZones) < splits[2].n
            /\ (nEdge > 0 /\ Len(splits) = StagesRequired) =>
                  MaxEdgeIndex(nEdge) < splits[StagesRequired].n

\* C26 witness: successful plans with no regular zone and two edge zones
\* under External publish, all three splits made.
C26_Witness ==
    /\ ManagedCalled /\ ret = "ok" /\ IsExternal
    /\ RegularZones = {}
    /\ Cardinality(ExtractedZones.edgeZones) = 2
    /\ Len(splits) = 3 /\ splits[2].n = 0 /\ splits[3].n = 5
    /\ Len(LastProduced) = 4

\* The VPC descriptor a successful call writes for the current input.
WrittenVPC ==
    IF BYOMode THEN [ID |-> in.Subnets.vpc, CidrBlock |-> EmptyCidr]
    ELSE [ID |-> "", CidrBlock |-> CIDRFromInstallConfig(in.InstallConfig)]

\* C27: a successful call overwrites the VPC descriptor and appends to the
\* Subnets list without clearing it: the list after the call starts with
\* the list from before it; a second successful call on the descriptor the
\* first call wrote leaves every planned subnet in the list twice.
C27_SubnetsAppendedNotReplaced ==
    \A k \in Calls :
        hist[k].ret = "ok" =>
            LET b == hist[k].before
                a == hist[k].after
            IN  /\ a.VPC = WrittenVPC
                /\ Len(a.Subnets) >= Len(b.Subnets)
                /\ SubSeq(a.Subnets, 1, Len(b.Subnets)) = b.Subnets
                /\ (k > 1 /\ hist[k - 1].ret = "ok" /\ OnFresh(k - 1)
                          /\ b = hist[k - 1].after) =>
                      /\ Len(a.Subnets) = 2 * Len(b.Subnets)
                      /\ \A x \in Range(a.Subnets) :
                            Count(a.Subnets, x) = 2 * Count(b.Subnets, x)

\* C27 witness: two successful BYO calls on one descriptor, two subnets
\* planned, four records listed.
C27_Witness ==
    /\ BYOMode /\ Len(hist) = 2
    /\ hist[1].ret = "ok" /\ hist[2].ret = "ok"
    /\ OnFresh(1) /\ hist[2].before = hist[1].after
    /\ Len(hist[1].after.Subnets) = 2
    /\ Len(cluster.Subnets) = 4

DescribedIds == {cloud.describedSubnets[k].SubnetId : k \in 1..Len(cloud.describedSubnets)}

GroupIds(g) == DOMAIN subnetsOut.groups[g]

\* A listed local-zone subnet whose route table is found and has no
\* internet gateway route.
PrivateLocalZoneSubnets ==
    {id \in RequestedIds \cap DescribedIds :
        /\ ZoneTypeOfSubnet(id) = AvailabilityZoneTypeLocal
        /\ isSubnetPublic(cloud.routeTables, id) = [public |-> FALSE, err |-> NULL]}

Reconciling == eipOut.fn = "ReconcileElasticIP"

\* The role the call looks addresses up with.
RoleOfCall == IF eipOut.pool # NIL
              THEN getElasticIPRoleName(eipOut.instance.ID)
              ELSE eipRoleCustomEC2

\* An address of the role is associated with the instance.
AssociatedWith(addresses, role, instanceID) ==
    \E i \in 1..Len(addresses) :
        /\ addresses[i].Role = role
        /\ addresses[i].AssociationId # NULL
        /\ addresses[i].InstanceId = instanceID

\* A free bring-your-own address: tagged ec2-custom and held by no instance.
FreeBYOAddress(addresses) ==
    \E i \in 1..Len(addresses) :
        /\ addresses[i].Role = eipRoleCustomEC2
        /\ (addresses[i].AssociationId = NULL \/ addresses[i].InstanceId = NULL)

\* An association was still due when the call was made.
AssociationDue ==
    /\ ~AssociatedWith(eipOut.before, RoleOfCall, eipOut.instance.ID)
    /\ (eipOut.pool # NIL \/ FreeBYOAddress(eipOut.before))

\* The call's query for the role's addresses failed (the error of
\* GetAddresses is returned as it is).
QueryFailed == eipOut.err = "RequestError"

Made(request) == \E i \in 1..Len(eipOut.made) : eipOut.made[i] = request

\* The call neither allocated nor associated an address.
NothingAllocatedOrAssociated ==
    /\ ~Made("AllocateAddress")
    /\ ~Made("AssociateAddress")
    /\ ec2.addresses = eipOut.before

\* The addresses tagged ec2-custom.
BYOAddresses(addresses) == SelectSeq(addresses, LAMBDA a : a.Role = eipRoleCustomEC2)

C29_AssociatesOnlyWhenRunning ==
    Reconciling /\ Made("AssociateAddress")
        => eipOut.instance.State = InstanceStateRunning

C29_RequeuesWhileDueAndNotRunning ==
    (/\ Reconciling
     /\ AssociationDue
     /\ eipOut.instance.State # InstanceStateRunning
     /\ ~QueryFailed)
        => /\ eipOut.requeue
           /\ eipOut.err = NULL
           /\ NothingAllocatedOrAssociated

C29_NoRequeueOtherwise ==
    (/\ Reconciling
     /\ eipOut.err = NULL
     /\ ~(AssociationDue /\ eipOut.instance.State # InstanceStateRunning))
        => ~eipOut.requeue

C29_PoolTakesPrecedence ==
    Reconciling /\ eipOut.pool # NIL
        => BYOAddresses(ec2.addresses) = BYOAddresses(eipOut.before)

\* C29: ReconcileElasticIP asks for an association only for a running
\* instance; while an association is still due and the instance is not
\* running it returns requeue=true without an error and allocates and
\* associates nothing; every other outcome without an error returns
\* requeue=false; with a pool configured the ec2-custom addresses are left
\* alone.
C29_Original ==
    /\ C29_AssociatesOnlyWhenRunning
    /\ C29_RequeuesWhileDueAndNotRunning
    /\ C29_NoRequeueOtherwise
    /\ C29_PoolTakesPrecedence

\* The addresses associated with the instance under reconciliation.
AssociatedAddresses ==
    {i \in 1..Len(ec2.addresses) :
        /\ ec2.addresses[i].AssociationId # NULL
        /\ ec2.addresses[i].InstanceId = ec2.instance.ID}

\* Once an address of the instance's role is associated with the instance,
\* a call whose query is answered allocates nothing, associates nothing and
\* returns requeue=false without an error.
C30_Idempotent ==
    (/\ Reconciling
     /\ AssociatedWith(eipOut.before, RoleOfCall, eipOut.instance.ID)
     /\ ~QueryFailed)
        => /\ NothingAllocatedOrAssociated
           /\ ~eipOut.requeue
           /\ eipOut.err = NULL

\* Under repeated reconciliation of a machine that is due an address (a pool
\* is configured or a free ec2-custom address exists): if the instance ends
\* up running and the calls end up succeeding, the instance ends up with
\* exactly one associated address and the calls stop asking for a requeue.
C30_Converges ==
    (/\ ec2.pool # NIL \/ FreeBYOAddress(ec2.addresses)
     /\ <>[](ec2.instance.State = InstanceStateRunning)
     /\ <>[](Reconciling /\ eipOut.err = NULL))
        => <>[](/\ Cardinality(AssociatedAddresses) = 1
                /\ Reconciling
                /\ ~eipOut.requeue)

\* C30: Elastic IP reconciliation is idempotent (once an address of the
\* instance's role is associated with the instance, every further call
\* allocates nothing, associates nothing and returns requeue=false without
\* an error) and converges (under repeated reconciliation, an instance that
\* ends up running while the address calls succeed ends up with exactly one
\* associated address, and the calls stop asking for a requeue).
C30_Original == []C30_Idempotent /\ C30_Converges

====
